---- MODULE Spec2Model ----
(***************************************************************************)
(* A model of rustlox, a tree-walking interpreter for Lox: the scanner,    *)
(* the recursive-descent parser, the environment chain and the evaluator,  *)
(* driven by Lox::run.                                                     *)
(*                                                                         *)
(* Rc<RefCell<Environment>> cells are modelled as indices into a heap      *)
(* (the sequence environments); index 0 is Option::None.                   *)
(***************************************************************************)
EXTENDS Integers, Sequences, FiniteSets, TLC

VARIABLES
    pc,               \* position of the driver: where Lox::run stands
    source,           \* the source text handed to Lox::run (a sequence of characters)
    tokens,           \* Scanner.tokens as handed to Parser::new
    stmts,            \* the Vec<Stmt> handed to Interpreter::interpret
    idx,              \* position of the for loop of Interpreter::interpret
    environments,     \* heap of Environment cells
    env,              \* Interpreter.env
    globals,          \* Interpreter.globals
    output,           \* lines written by println!
    reported,         \* diagnostics written by eprintln!
    hadError,         \* static HAD_ERROR
    hadRuntimeError,  \* static HAD_RUNTIME_ERROR
    trace,            \* history: what the evaluator did (blocks, calls, top-level statements)
    last              \* history: the last operation applied (of Environment, of the
                      \* Parser) and the state before it

vars == <<pc, source, tokens, stmts, idx, environments, env, globals, output,
          reported, hadError, hadRuntimeError, trace, last>>

-----------------------------------------------------------------------------
(* Bounds of the model *)

MaxScopes == 3      \* environments of a heap drawn by EnvInit
MaxSteps == 6       \* step budget of one top-level statement: calls and loop iterations
MaxTokens == 3      \* tokens before the Eof of a sequence drawn by ParseInit
MaxParens == 1      \* `(` among the tokens of a sequence drawn by ParseInit
MaxLines == 2       \* lines read by run_prompt

-----------------------------------------------------------------------------
(* types.rs: LitVal *)

(* Number is f64: modelled as the rational n/d in lowest terms, d > 0; d = 0  *)
(* stands for the non-finite values (n = 1: inf, n = -1: -inf, n = 0: NaN).  *)
Number(n) == [t |-> "Number", n |-> n, d |-> 1]
String(s) == [t |-> "String", s |-> s]
Bool(b) == [t |-> "Bool", b |-> b]
Nil == [t |-> "Nil"]
NotExist == [t |-> "NotExist"]
Function(decl, closure) == [t |-> "Function", decl |-> decl, closure |-> closure]
Clock == [t |-> "Clock"]

(* token.rs: Token *)
Token(type_, lexeme, literal, line) ==
    [type_ |-> type_, lexeme |-> lexeme, literal |-> literal, line |-> line]

(* interpreter.rs: Result<LitVal, RuntimeError>.  Two more outcomes end the  *)
(* process instead of returning: a panic (todo!(), unreachable!(), panic!()) *)
(* and a computation that does not come back within the step budget.        *)
Ok(val) == [kind |-> "ok", val |-> val]
RuntimeError(token, message) == [kind |-> "err", token |-> token, message |-> message]
Panic(message) == [kind |-> "panic", message |-> message]
Diverge == [kind |-> "diverge"]

-----------------------------------------------------------------------------
(* environment.rs *)

Environment_new == [values |-> <<>>, enclosing |-> 0]

Environment_new_with_enclosing(enclosing) == [values |-> <<>>, enclosing |-> enclosing]

contains_key(values, key) == key \in DOMAIN values

insert(values, key, val) == [k \in (DOMAIN values) \cup {key} |-> IF k = key THEN val ELSE values[k]]

UndefinedVariable(name) ==
    RuntimeError(name, "Undefined variable '" \o name.lexeme \o "'.")

(* get that never looks at the enclosing environments *)
Environment_get_current_only(envs, self, name) ==
    IF contains_key(envs[self].values, name.lexeme)
    THEN Ok(envs[self].values[name.lexeme])
    ELSE UndefinedVariable(name)

RECURSIVE Environment_get(_, _, _)
Environment_get(envs, self, name) ==
    IF contains_key(envs[self].values, name.lexeme)
    THEN Ok(envs[self].values[name.lexeme])
    ELSE IF envs[self].enclosing # 0
         THEN Environment_get(envs, envs[self].enclosing, name)
         ELSE UndefinedVariable(name)

(* assign that writes the current environment whenever the chain defines the name *)
Environment_assign_in_current(envs, self, name, value) ==
    IF Environment_get(envs, self, name).kind = "ok"
    THEN [envs |-> [envs EXCEPT ![self].values = insert(@, name.lexeme, value)],
          res |-> Ok(value)]
    ELSE [envs |-> envs, res |-> UndefinedVariable(name)]

(* assign that declares the name in the current environment when no scope has it *)
Environment_assign_or_declare(envs, self, name, value) ==
    IF Environment_get(envs, self, name).kind = "ok"
    THEN Environment_assign_in_current(envs, self, name, value)
    ELSE [envs |-> [envs EXCEPT ![self].values = insert(@, name.lexeme, value)],
          res |-> Ok(value)]

(* The result of assign is the pair of the heap after it and the Result. *)
RECURSIVE Environment_assign(_, _, _, _)
Environment_assign(envs, self, name, value) ==
    IF contains_key(envs[self].values, name.lexeme)
    THEN [envs |-> [envs EXCEPT ![self].values = insert(@, name.lexeme, value)],
          res |-> Ok(value)]
    ELSE IF envs[self].enclosing # 0
         THEN Environment_assign(envs, envs[self].enclosing, name, value)
         ELSE [envs |-> envs, res |-> UndefinedVariable(name)]

(* define that updates an enclosing environment when one already has the name *)
Environment_define_or_assign(envs, self, name, value) ==
    IF ~contains_key(envs[self].values, name) /\ envs[self].enclosing # 0
       /\ Environment_get(envs, envs[self].enclosing, [lexeme |-> name]).kind = "ok"
    THEN Environment_assign(envs, envs[self].enclosing, [lexeme |-> name], value).envs
    ELSE [envs EXCEPT ![self].values = insert(@, name, value)]

Environment_define(envs, self, name, value) ==
    [envs EXCEPT ![self].values = insert(@, name, value)]

-----------------------------------------------------------------------------
(* types.rs: impl Display for LitVal, and the operators of LitVal *)

Abs(n) == IF n < 0 THEN -n ELSE n

RECURSIVE Gcd(_, _)
Gcd(a, b) == IF b = 0 THEN a ELSE Gcd(b, a % b)

(* The f64 n/d: lowest terms, a positive denominator; x/0 is inf, -inf or NaN. *)
Ratio(n, d) ==
    IF d = 0
    THEN [t |-> "Number", n |-> (IF n > 0 THEN 1 ELSE IF n < 0 THEN -1 ELSE 0), d |-> 0]
    ELSE LET g == Gcd(Abs(n), Abs(d))
             sign == IF d < 0 THEN -1 ELSE 1
         IN [t |-> "Number", n |-> sign * (n \div g), d |-> Abs(d) \div g]

IsNaN(x) == x.d = 0 /\ x.n = 0

(* Digits after the decimal point of r/d, r < d, as f64's shortest form prints *)
(* them for the small values of the model (at most FractionDigits digits).    *)
RECURSIVE fraction_digits(_, _, _)
fraction_digits(r, d, left) ==
    IF r = 0 \/ left = 0 THEN ""
    ELSE ToString((10 * r) \div d) \o fraction_digits((10 * r) % d, d, left - 1)

FractionDigits == 16

fmt_number(x) ==
    IF x.d = 0 THEN (IF x.n > 0 THEN "inf" ELSE IF x.n < 0 THEN "-inf" ELSE "NaN")
    ELSE IF x.d = 1 THEN ToString(x.n)
    ELSE (IF x.n < 0 THEN "-" ELSE "") \o ToString(Abs(x.n) \div x.d) \o "."
         \o fraction_digits(Abs(x.n) % x.d, x.d, FractionDigits)

fmt(val) ==
    CASE val.t = "Number" -> fmt_number(val)
      [] val.t = "String" -> val.s
      [] val.t = "Bool" -> (IF val.b THEN "true" ELSE "false")
      [] val.t = "Nil" -> "nil"
      [] val.t = "NotExist" -> "not exist"
      [] val.t = "Clock" -> "<native fn>"
      [] val.t = "Function" -> "<fn " \o val.decl.name.lexeme \o ">"

(* impl Sub / Div / Mul / Add for LitVal: the result, or the panic of the `_` arm *)
LitVal_sub(a, b) ==
    IF a.t = "Number" /\ b.t = "Number"
    THEN Ok(IF a.d = 0 \/ b.d = 0
            THEN (IF IsNaN(a) \/ IsNaN(b) \/ (a.d = 0 /\ b.d = 0 /\ a.n = b.n) THEN Ratio(0, 0)
                  ELSE IF a.d = 0 THEN a ELSE Ratio(-b.n, 0))
            ELSE Ratio(a.n * b.d - b.n * a.d, a.d * b.d))
    ELSE Panic("Subtraction is only supported for numbers")

LitVal_div(a, b) ==
    IF a.t = "Number" /\ b.t = "Number"
    THEN Ok(IF a.d = 0 \/ b.d = 0
            THEN (IF IsNaN(a) \/ IsNaN(b) \/ (a.d = 0 /\ b.d = 0) THEN Ratio(0, 0)
                  ELSE IF a.d = 0 THEN Ratio(a.n * (IF b.n < 0 THEN -1 ELSE 1), 0)
                  ELSE Ratio(0, 1))
            ELSE IF b.n = 0 THEN Ratio(a.n, 0)
            ELSE Ratio(a.n * b.d, a.d * b.n))
    ELSE Panic("Division is only supported for numbers")

LitVal_mul(a, b) ==
    IF a.t = "Number" /\ b.t = "Number"
    THEN Ok(IF a.d = 0 \/ b.d = 0
            THEN (IF IsNaN(a) \/ IsNaN(b) \/ a.n = 0 \/ b.n = 0 THEN Ratio(0, 0)
                  ELSE Ratio(a.n * b.n, 0))
            ELSE Ratio(a.n * b.n, a.d * b.d))
    ELSE Panic("Multiplication is only supported for numbers")

LitVal_add(a, b) ==
    IF a.t = "Number" /\ b.t = "Number"
    THEN Ok(IF a.d = 0 \/ b.d = 0
            THEN (IF IsNaN(a) \/ IsNaN(b) \/ (a.d = 0 /\ b.d = 0 /\ a.n # b.n) THEN Ratio(0, 0)
                  ELSE IF a.d = 0 THEN a ELSE b)
            ELSE Ratio(a.n * b.d + b.n * a.d, a.d * b.d))
    ELSE IF a.t = "String" /\ b.t = "String"
    THEN Ok(String(a.s \o b.s))
    ELSE Panic("Addition is only supported for numbers and strings")

(* derive(PartialOrd) on two Numbers: f64 comparison, false when either is NaN *)
Number_lt(a, b) ==
    /\ ~IsNaN(a) /\ ~IsNaN(b)
    /\ IF a.d = 0 /\ b.d = 0 THEN a.n < b.n
       ELSE IF a.d = 0 THEN a.n < 0
       ELSE IF b.d = 0 THEN b.n > 0
       ELSE a.n * b.d < b.n * a.d

Number_eq(a, b) == ~IsNaN(a) /\ ~IsNaN(b) /\ a.n = b.n /\ a.d = b.d

(* derive(PartialEq) on LitVal.  Two functions are compared structurally:    *)
(* their declarations, then their closures (impl PartialEq for Environment:  *)
(* the values maps, then the enclosing environments).  The set of outcomes   *)
(* the comparison can have: "true", "false", or "overflow" when it recurses  *)
(* into a pair of environments it is already comparing (the recursion never  *)
(* ends and the stack overflows).  A HashMap compares its entries in an      *)
(* unspecified order and stops at the first unequal one, so an unequal entry *)
(* and a cyclic one in the same map make both outcomes possible.             *)
RECURSIVE LitVal_eq(_, _, _, _), Environment_eq(_, _, _, _)
LitVal_eq(envs, a, b, path) ==
    IF a.t # b.t THEN {"false"}
    ELSE CASE a.t = "Number" -> {IF Number_eq(a, b) THEN "true" ELSE "false"}
           [] a.t = "String" -> {IF a.s = b.s THEN "true" ELSE "false"}
           [] a.t = "Bool" -> {IF a.b = b.b THEN "true" ELSE "false"}
           [] a.t = "Function" ->
                IF a.decl # b.decl THEN {"false"}
                ELSE Environment_eq(envs, a.closure, b.closure, path)
           [] OTHER -> {"true"}

Environment_eq(envs, self, other, path) ==
    IF <<self, other>> \in path THEN {"overflow"}
    ELSE LET p == path \cup {<<self, other>>}
             v1 == envs[self].values
             v2 == envs[other].values
             entries == {LitVal_eq(envs, v1[k], v2[k], p) : k \in (DOMAIN v1) \cap (DOMAIN v2)}
             values_eq ==
                 IF Cardinality(DOMAIN v1) # Cardinality(DOMAIN v2) THEN {"false"}
                 ELSE (IF \E k \in DOMAIN v1 : k \notin DOMAIN v2 THEN {"false"} ELSE {})
                      \cup {o \in {"false", "overflow"} : \E e \in entries : o \in e}
                      \cup (IF DOMAIN v1 = DOMAIN v2 /\ \A e \in entries : "true" \in e
                            THEN {"true"} ELSE {})
             e1 == envs[self].enclosing
             e2 == envs[other].enclosing
             enclosing_eq ==
                 IF e1 = 0 \/ e2 = 0 THEN {IF e1 = e2 THEN "true" ELSE "false"}
                 ELSE Environment_eq(envs, e1, e2, p)
         IN (values_eq \ {"true"}) \cup (IF "true" \in values_eq THEN enclosing_eq ELSE {})

(* The outcome taken from the possible ones: the stack overflow when the     *)
(* comparison can reach it.                                                  *)
eq_outcome(envs, a, b) ==
    LET o == LitVal_eq(envs, a, b, {})
    IN IF "overflow" \in o THEN Panic("stack overflow")
       ELSE IF "false" \in o THEN Ok(Bool(FALSE)) ELSE Ok(Bool(TRUE))

ne_outcome(envs, a, b) ==
    LET r == eq_outcome(envs, a, b)
    IN IF r.kind = "ok" THEN Ok(Bool(~r.val.b)) ELSE r

-----------------------------------------------------------------------------
(* interpreter.rs *)

(* The interpreter as the evaluator threads it: the heap, Interpreter.env,   *)
(* Interpreter.globals, stdout, stderr, the history and the step budget.     *)
Ret(I, res) == [I |-> I, res |-> res]

is_truthy(val) ==
    CASE val.t = "Bool" -> val.b
      [] val.t = "Nil" -> FALSE
      [] OTHER -> TRUE

IsReturn(res) == res.kind = "err" /\ res.message = "return"

Literal(val) == [k |-> "Literal", val |-> val]

(* A check of the left operand only *)
check_left_operand(operator, left, right) ==
    IF left.t = "Number"
    THEN Ok(Nil)
    ELSE RuntimeError(operator, "Operands must be numbers.")

check_number_operands(operator, left, right) ==
    IF left.t = "Number" /\ right.t = "Number"
    THEN Ok(Nil)
    ELSE RuntimeError(operator, "Operands must be numbers.")

(* The first match of eval_binary without its arm of Plus *)
BinaryCheck_numbers_only(op, left, right) ==
    IF op.type_ \in {"Minus", "Slash", "Star", "Greater", "GreaterEqual", "Less", "LessEqual"}
    THEN check_number_operands(op, left, right)
    ELSE Ok(Nil)

BinaryCheck(op, left, right) ==
    IF op.type_ \in {"Minus", "Slash", "Star", "Greater", "GreaterEqual", "Less", "LessEqual"}
    THEN check_number_operands(op, left, right)
    ELSE IF op.type_ = "Plus"
    THEN (IF \/ (left.t = "Number" /\ right.t = "Number")
             \/ (left.t = "String" /\ right.t = "String")
          THEN Ok(Nil)
          ELSE RuntimeError(op, "Operands must be two numbers or two strings."))
    ELSE Ok(Nil)

(* The two matches of eval_binary on the operand values *)
BinaryApply(envs, op, left, right) ==
    LET chk == BinaryCheck(op, left, right)
    IN IF chk.kind # "ok" THEN chk
       ELSE CASE op.type_ = "Minus" -> LitVal_sub(left, right)
              [] op.type_ = "Slash" -> LitVal_div(left, right)
              [] op.type_ = "Star" -> LitVal_mul(left, right)
              [] op.type_ = "Plus" -> LitVal_add(left, right)
              [] op.type_ = "Greater" -> Ok(Bool(Number_lt(right, left)))
              [] op.type_ = "GreaterEqual" ->
                    Ok(Bool(Number_lt(right, left) \/ Number_eq(left, right)))
              [] op.type_ = "Less" -> Ok(Bool(Number_lt(left, right)))
              [] op.type_ = "LessEqual" ->
                    Ok(Bool(Number_lt(left, right) \/ Number_eq(left, right)))
              [] op.type_ = "BangEqual" -> ne_outcome(envs, left, right)
              [] op.type_ = "EqualEqual" -> eq_outcome(envs, left, right)
              [] OTHER -> Panic("unreachable")

ResKind(res) == IF IsReturn(res) THEN "return" ELSE res.kind

(* `let v = e; k` with e evaluated once *)
Let(v, K(_)) == K(v)

(* The `?` operator: r is returned unless it is Ok, and then k goes on with it. *)
Try(r, K(_)) == IF r.res.kind # "ok" THEN r ELSE K(r)

(* LoxFunction::arity *)
(* An arity that is one more than the number of parameters *)
arity_plus_one(function) == Len(function.decl.params) + 1

arity(function) == Len(function.decl.params)

RECURSIVE define_params(_, _, _, _, _)
define_params(envs, environment, params, arguments, i) ==
    IF i > Len(params) THEN envs
    ELSE define_params(Environment_define(envs, environment, params[i].lexeme, arguments[i]),
                       environment, params, arguments, i + 1)

ReturnToken(value) == Token("Return", "", value, 0)

RECURSIVE evaluate(_, _), execute(_, _), exec_block(_, _, _), exec_stmts(_, _, _, _, _),
          eval_arguments(_, _, _, _), while_loop(_, _, _), LoxFunction_call(_, _, _)

eval_binary(I, left, op, right) ==
    Try(evaluate(I, left), LAMBDA l :
    Try(evaluate(l.I, right), LAMBDA r :
        Ret(r.I, BinaryApply(r.I.envs, op, l.res.val, r.res.val))))

eval_unary(I, op, right) ==
    Try(evaluate(I, right), LAMBDA r :
        CASE op.type_ = "Bang" -> Ret(r.I, Ok(Bool(~is_truthy(r.res.val))))
          [] op.type_ = "Minus" ->
                IF r.res.val.t = "Number"
                THEN Ret(r.I, Ok([r.res.val EXCEPT !.n = -@]))
                ELSE Ret(r.I, RuntimeError(op, "Operand must be a number."))
          [] OTHER -> Ret(r.I, Panic("unreachable")))

eval_assign(I, name, value) ==
    Try(evaluate(I, value), LAMBDA v :
    Let(Environment_assign(v.I.envs, v.I.env, name, v.res.val), LAMBDA a :
        IF a.res.kind # "ok" THEN Ret(v.I, a.res)
        ELSE Ret([v.I EXCEPT !.envs = a.envs], Ok(v.res.val))))

(* Both operands evaluated before the operator is looked at *)
eval_logical_eager(I, left, op, right) ==
    Try(evaluate(I, left), LAMBDA l :
    Try(evaluate(l.I, right), LAMBDA r :
        IF is_truthy(l.res.val) = (op.type_ = "Or") THEN Ret(r.I, l.res) ELSE r))

eval_logical(I, left, op, right) ==
    Try(evaluate(I, left), LAMBDA l :
        IF op.type_ = "Or"
        THEN (IF is_truthy(l.res.val) THEN l ELSE evaluate(l.I, right))
        ELSE (IF ~is_truthy(l.res.val) THEN l ELSE evaluate(l.I, right)))

(* arguments.iter().map(|arg| self.evaluate(arg)).collect::<Result<Vec<_>, _>>() *)
eval_arguments(I, arguments, i, acc) ==
    IF i > Len(arguments) THEN Ret(I, Ok(acc))
    ELSE Try(evaluate(I, arguments[i]), LAMBDA a :
             eval_arguments(a.I, arguments, i + 1, Append(acc, a.res.val)))

eval_call(I, callee, paren, arguments) ==
    Try(evaluate(I, callee), LAMBDA c :
    Try(eval_arguments(c.I, arguments, 1, <<>>), LAMBDA a :
        IF c.res.val.t = "Function"
        THEN (IF Len(a.res.val) # arity(c.res.val)
              THEN Ret(a.I, RuntimeError(paren,
                       "Expected " \o ToString(arity(c.res.val)) \o " arguments but got "
                       \o ToString(Len(a.res.val)) \o "."))
              ELSE LoxFunction_call(a.I, c.res.val, a.res.val))
        ELSE Ret(a.I, RuntimeError(paren, "Can only call functions and classes."))))

evaluate(I, expr) ==
    CASE expr.k = "Binary" -> eval_binary(I, expr.left, expr.op, expr.right)
      [] expr.k = "Grouping" -> evaluate(I, expr.expression)
      [] expr.k = "Literal" -> Ret(I, Ok(expr.val))
      [] expr.k = "Unary" -> eval_unary(I, expr.op, expr.right)
      [] expr.k = "Variable" -> Ret(I, Environment_get(I.envs, I.env, expr.name))
      [] expr.k = "Assign" -> eval_assign(I, expr.name, expr.value)
      [] expr.k = "Logical" -> eval_logical(I, expr.left, expr.op, expr.right)
      [] expr.k = "Call" -> eval_call(I, expr.callee, expr.paren, expr.arguments)

(* Dynamic scoping: a call environment that encloses the caller's scope *)
CallEnvironment_of_caller(I, self, arguments) ==
    define_params(Append(I.envs, Environment_new_with_enclosing(I.env)),
                  Len(I.envs) + 1, self.decl.params, arguments, 1)

(* The environment of a call: Environment::new_with_enclosing(self.closure)  *)
(* with every parameter defined.                                             *)
CallEnvironment(I, self, arguments) ==
    define_params(Append(I.envs, Environment_new_with_enclosing(self.closure)),
                  Len(I.envs) + 1, self.decl.params, arguments, 1)

CallEvent(I, self, envs) ==
    [ev |-> "call", closure |-> self.closure, caller |-> I.env, heap |-> Len(I.envs),
     scope |-> Len(envs), enclosing |-> envs[Len(envs)].enclosing]

(* The match of LoxFunction::call on the result of exec_block *)
CallResult(b) ==
    CASE b.res.kind = "ok" -> Ret(b.I, Ok(Nil))
      [] IsReturn(b.res) -> Ret(b.I, Ok(b.res.token.literal))
      [] b.res.kind = "err" /\ ~IsReturn(b.res) ->
            Ret([b.I EXCEPT !.err = Append(@, [dbg |-> b.res.token])],
                RuntimeError(b.res.token, b.res.message))
      [] OTHER -> b

(* types.rs: LoxFunction::call.  The environment enclosing the globals that  *)
(* the function allocates first is dropped unused and is left out.  A call   *)
(* takes one step of the budget.                                             *)
LoxFunction_call(I, self, arguments) ==
    IF I.fuel = 0 THEN Ret(I, Diverge)
    ELSE Let(CallEnvironment(I, self, arguments), LAMBDA envs :
             CallResult(exec_block([I EXCEPT !.envs = envs, !.fuel = @ - 1,
                                             !.trace = Append(@, CallEvent(I, self, envs))],
                                   self.decl.body, Len(envs))))

exec_var(I, name, initializer) ==
    Try(IF initializer # Literal(Nil) THEN evaluate(I, initializer) ELSE Ret(I, Ok(Nil)),
        LAMBDA v :
            Ret([v.I EXCEPT !.envs = Environment_define(@, v.I.env, name.lexeme, v.res.val)],
                Ok(v.res.val)))

exec_print(I, expr) ==
    Try(evaluate(I, expr), LAMBDA v :
        Ret([v.I EXCEPT !.out = Append(@, fmt(v.res.val))], Ok(v.res.val)))

exec_if(I, condition, then_branch, else_branch) ==
    Try(evaluate(I, condition), LAMBDA c :
        IF is_truthy(c.res.val) THEN execute(c.I, then_branch)
        ELSE IF else_branch # <<>> THEN execute(c.I, else_branch[1])
        ELSE Ret(c.I, Ok(Nil)))

(* The while loop of Stmt::While; every iteration takes one step of the budget. *)
while_loop(I, condition, body) ==
    Try(evaluate(I, condition), LAMBDA c :
        IF ~is_truthy(c.res.val) THEN Ret(c.I, Ok(Nil))
        ELSE IF c.I.fuel = 0 THEN Ret(c.I, Diverge)
        ELSE Try(execute([c.I EXCEPT !.fuel = @ - 1], body), LAMBDA b :
                 while_loop(b.I, condition, body)))

FunctionDecl(name, params, body) ==
    [k |-> "Function", name |-> name, params |-> params, body |-> body]

exec_function(I, name, params, body) ==
    Ret([I EXCEPT !.envs = Environment_define(@, I.env, name.lexeme,
                                Function(FunctionDecl(name, params, body), I.env))],
        Ok(Nil))

(* The match of Stmt::Return on the result of evaluating its value *)
ReturnResult(v) ==
    CASE v.res.kind = "ok" -> Ret(v.I, RuntimeError(ReturnToken(v.res.val), "return"))
      [] v.res.kind = "err" -> Ret(v.I, Panic("not yet implemented"))
      [] OTHER -> v

exec_return(I, stmt_value) ==
    IF stmt_value = Literal(Nil)
    THEN Ret(I, RuntimeError(ReturnToken(Nil), "return"))
    ELSE ReturnResult(evaluate(I, stmt_value))

(* A block that runs in the current scope, without a scope of its own *)
exec_block_in_current(I, stmts_) == exec_block(I, stmts_, I.env)

(* Stmt::Block: exec_block with Environment::new_with_enclosing(self.env) *)
exec_block_stmt(I, stmts_) ==
    exec_block([I EXCEPT !.envs = Append(@, Environment_new_with_enclosing(I.env))],
               stmts_, Len(I.envs) + 1)

execute(I, stmt) ==
    CASE stmt.k = "Expr" -> evaluate(I, stmt.expr)
      [] stmt.k = "Print" -> exec_print(I, stmt.expr)
      [] stmt.k = "Var" -> exec_var(I, stmt.name, stmt.initializer)
      [] stmt.k = "Block" -> exec_block_stmt(I, stmt.stmts)
      [] stmt.k = "If" -> exec_if(I, stmt.condition, stmt.then_branch, stmt.else_branch)
      [] stmt.k = "While" -> while_loop(I, stmt.condition, stmt.body)
      [] stmt.k = "Function" -> exec_function(I, stmt.name, stmt.params, stmt.body)
      [] stmt.k = "Return" -> exec_return(I, stmt.value)

(* The for loop of exec_block: result is overwritten by every statement, and *)
(* only a result whose message is "return" leaves the loop.  kinds is the    *)
(* history of the results of the statements executed.                        *)
exec_stmts(I, stmts_, i, result, kinds) ==
    IF i > Len(stmts_) THEN [I |-> I, res |-> result, kinds |-> kinds]
    ELSE Let(execute(I, stmts_[i]), LAMBDA r :
             IF r.res.kind \in {"panic", "diverge"} \/ IsReturn(r.res)
             THEN [I |-> r.I, res |-> r.res, kinds |-> Append(kinds, ResKind(r.res))]
             ELSE exec_stmts(r.I, stmts_, i + 1, r.res, Append(kinds, ResKind(r.res))))

BlockEvent(r, n, prev, env_, after) ==
    [ev |-> "block", kinds |-> r.kinds, n |-> n, final |-> ResKind(r.res),
     prev |-> prev, scope |-> env_, after |-> after]

(* The block leaves self.env alone when a statement of it failed *)
BlockResult_on_ok(r, n, prev, env_) ==
    Let(IF r.res.kind # "ok" THEN r.I ELSE [r.I EXCEPT !.env = prev], LAMBDA I1 :
        Ret([I1 EXCEPT !.trace = Append(@, BlockEvent(r, n, prev, env_, I1.env))], r.res))

(* exec_block after its loop: self.env = prev; result.  The event holds the   *)
(* self.env the block is left with.                                          *)
BlockResult(r, n, prev, env_) ==
    Let(IF r.res.kind \in {"panic", "diverge"} THEN r.I ELSE [r.I EXCEPT !.env = prev],
        LAMBDA I1 :
        Ret([I1 EXCEPT !.trace = Append(@, BlockEvent(r, n, prev, env_, I1.env))], r.res))

exec_block(I, stmts_, env_) ==
    BlockResult(exec_stmts([I EXCEPT !.env = env_], stmts_, 1, Ok(NotExist), <<>>),
                Len(stmts_), I.env, env_)

(* The environments of an interpreter that is made once and kept *)
Interpreter_kept_envs ==
    IF environments # <<>> THEN environments
    ELSE Environment_define(<<Environment_new>>, 1, "clock", Clock)

(* Interpreter::new *)
Interpreter_new_envs ==
    Environment_define(<<Environment_new>>, 1, "clock", Clock)

-----------------------------------------------------------------------------
(* scanner.rs.  The source is the String as its bytes, a sequence of        *)
(* one-character strings: an ASCII character is one byte, and the character  *)
(* U+00E9 is the two bytes Lead, Continuation of its UTF-8 encoding.  The    *)
(* scanner S is [source, chars, tokens, start, current, line, errs, panic]:  *)
(* chars is self.source.chars(), errs are the errors handed to Lox::error,   *)
(* and panic is set when an unwrap() or a slice of the source panics.        *)

NUL == "NUL"

None == "None"

Lead == "0xC3"

Continuation == "0xA9"

DigitChars == <<"0", "1", "2", "3", "4", "5", "6", "7", "8", "9">>

is_ascii_digit(c) == \E i \in DOMAIN DigitChars : DigitChars[i] = c

is_alpha(c) ==
    c \in {"a", "b", "c", "d", "e", "f", "g", "h", "i", "j", "k", "l", "m", "n", "o", "p",
           "q", "r", "s", "t", "u", "v", "w", "x", "y", "z",
           "A", "B", "C", "D", "E", "F", "G", "H", "I", "J", "K", "L", "M", "N", "O", "P",
           "Q", "R", "S", "T", "U", "V", "W", "X", "Y", "Z", "_"}

is_alpha_numeric(c) == is_alpha(c) \/ is_ascii_digit(c)

(* str::chars: one entry for each character, its first byte *)
chars(source_) == SelectSeq(source_, LAMBDA b : b # Continuation)

Scanner_new(source_) ==
    [source |-> source_, chars |-> chars(source_), tokens |-> <<>>, start |-> 0,
     current |-> 0, line |-> 1, errs |-> <<>>, panic |-> FALSE]

(* self.source.chars().nth(n), an Option *)
nth(S, n) == IF n < Len(S.chars) THEN S.chars[n + 1] ELSE None

(* self.current >= self.source.len(), the length in bytes *)
Scanner_is_at_end(S) == S.current >= Len(S.source)

(* The scanner after advance(); the character it returns is nth(S, S.current), *)
(* whose unwrap() panics on None.                                              *)
Scanner_advance(S) ==
    IF nth(S, S.current) = None THEN [S EXCEPT !.panic = TRUE]
    ELSE [S EXCEPT !.current = @ + 1]

(* peek(): None stands for the panic of its unwrap() *)
Scanner_peek(S) == IF Scanner_is_at_end(S) THEN NUL ELSE nth(S, S.current)

peek_next(S) == IF S.current + 1 >= Len(S.source) THEN NUL ELSE nth(S, S.current + 1)

(* match_ is TRUE exactly when Scanner_matches, and then current has moved on; *)
(* its unwrap() panics exactly when Scanner_peek is None.                      *)
Scanner_matches(S, expected) == ~Scanner_is_at_end(S) /\ nth(S, S.current) = expected

(* str::is_char_boundary *)
is_char_boundary(source_, index) ==
    \/ index = 0
    \/ index = Len(source_)
    \/ index < Len(source_) /\ source_[index + 1] # Continuation

(* self.source[from..to] does not panic *)
Sliceable(source_, from, to) ==
    /\ from <= to /\ to <= Len(source_)
    /\ is_char_boundary(source_, from) /\ is_char_boundary(source_, to)

(* self.source[from..to].to_string(), the text of its two halves *)
RECURSIVE Slice(_, _, _)
Slice(source_, from, to) ==
    IF from >= to THEN ""
    ELSE IF from + 1 = to THEN source_[to]
    ELSE Slice(source_, from, (from + to) \div 2) \o Slice(source_, (from + to) \div 2, to)

(* lib.rs: Lox::error, that is Lox::report with no location *)
Lox_error(line, message) == [line |-> line, where |-> "", message |-> message]

add_token(S, token, literal) ==
    IF ~Sliceable(S.source, S.start, S.current) THEN [S EXCEPT !.panic = TRUE]
    ELSE [S EXCEPT !.tokens = Append(@, Token(token, Slice(S.source, S.start, S.current),
                                              literal, S.line))]

add_token_default(S, token) == add_token(S, token, NotExist)

Keyword(text) ==
    CASE text = "and" -> "And"
      [] text = "class" -> "Class"
      [] text = "else" -> "Else"
      [] text = "false" -> "False"
      [] text = "fun" -> "Fun"
      [] text = "for" -> "For"
      [] text = "if" -> "If"
      [] text = "nil" -> "Nil"
      [] text = "or" -> "Or"
      [] text = "print" -> "Print"
      [] text = "return" -> "Return"
      [] text = "super" -> "Super"
      [] text = "this" -> "This"
      [] text = "true" -> "True"
      [] text = "var" -> "Var"
      [] text = "while" -> "While"
      [] OTHER -> "Identifier"

(* The condition of the while loop of identifier(), string(), number() or   *)
(* the comment arm, c being the character peek() returns                     *)
loop_condition(S, loop, c) ==
    CASE loop = "identifier" -> is_alpha_numeric(c)
      [] loop = "number" -> is_ascii_digit(c)
      [] loop = "string" -> c # "\"" /\ ~Scanner_is_at_end(S)
      [] loop = "comment" -> c # "\n" /\ ~Scanner_is_at_end(S)

(* At most n rounds of that while loop, whose body is `self.advance();`,     *)
(* after `self.line += 1` at a newline in string().  The rounds are split in *)
(* two halves, so that their evaluation nests log n deep.                    *)
RECURSIVE scan_while(_, _, _)
scan_while(S, loop, n) ==
    IF S.panic THEN S
    ELSE IF Scanner_peek(S) = None THEN [S EXCEPT !.panic = TRUE]
    ELSE IF ~loop_condition(S, loop, Scanner_peek(S)) THEN S
    ELSE IF n <= 1
    THEN Scanner_advance(IF loop = "string" /\ Scanner_peek(S) = "\n"
                         THEN [S EXCEPT !.line = @ + 1] ELSE S)
    ELSE scan_while(scan_while(S, loop, n \div 2), loop, n - n \div 2)

identifier(S) ==
    Let(scan_while(S, "identifier", Len(S.source)), LAMBDA S1 :
        IF S1.panic \/ ~Sliceable(S1.source, S1.start, S1.current)
        THEN [S1 EXCEPT !.panic = TRUE]
        ELSE add_token(S1, Keyword(Slice(S1.source, S1.start, S1.current)),
                       String(Slice(S1.source, S1.start, S1.current))))

string(S) ==
    Let(scan_while(S, "string", Len(S.source)), LAMBDA S1 :
        IF S1.panic THEN S1
        ELSE IF Scanner_is_at_end(S1)
        THEN [S1 EXCEPT !.errs = Append(@, Lox_error(S1.line, "Unterminated string."))]
        ELSE Let(Scanner_advance(S1), LAMBDA S2 :
                 IF S2.panic \/ ~Sliceable(S2.source, S2.start + 1, S2.current - 1)
                 THEN [S2 EXCEPT !.panic = TRUE]
                 ELSE add_token(S2, "String",
                                String(Slice(S2.source, S2.start + 1, S2.current - 1)))))

(* The two while loops of number() *)
digits(S) == scan_while(S, "number", Len(S.source))

(* str::parse::<f64> is Ok on the text source_[from..to]: digits, with at     *)
(* most one '.', which number() puts between two digits.                      *)
is_f64(source_, from, to) ==
    /\ from < to
    /\ \A i \in (from + 1)..to : is_ascii_digit(source_[i]) \/ source_[i] = "."
    /\ is_ascii_digit(source_[from + 1]) /\ is_ascii_digit(source_[to])
    /\ Cardinality({i \in (from + 1)..to : source_[i] = "."}) <= 1

(* str::parse::<f64> of a lexeme of number(): digits, then maybe '.' and      *)
(* digits.  d is 0 until the '.', then the denominator of the digits read.    *)
RECURSIVE parse_f64(_, _, _, _, _)
parse_f64(source_, from, to, n, d) ==
    IF from >= to THEN Ratio(n, IF d = 0 THEN 1 ELSE d)
    ELSE IF source_[from + 1] = "."
    THEN parse_f64(source_, from + 1, to, n, 1)
    ELSE parse_f64(source_, from + 1, to,
                   10 * n + (CHOOSE i \in 0..9 : DigitChars[i + 1] = source_[from + 1]),
                   IF d = 0 THEN 0 ELSE 10 * d)

number(S) ==
    Let(digits(S), LAMBDA S1 :
    Let(IF ~S1.panic /\ Scanner_peek(S1) = "." /\ is_ascii_digit(peek_next(S1))
        THEN digits(Scanner_advance(S1)) ELSE S1, LAMBDA S2 :
        IF S2.panic \/ ~Sliceable(S2.source, S2.start, S2.current)
                    \/ ~is_f64(S2.source, S2.start, S2.current)
        THEN [S2 EXCEPT !.panic = TRUE]
        ELSE add_token(S2, "Number", parse_f64(S2.source, S2.start, S2.current, 0, 0))))

(* The while loop of the arm for '/' *)
comment(S) == scan_while(S, "comment", Len(S.source))

(* The arms of scan_token for '!', '=', '<' and '>' *)
OneOrTwo(S, two, one) ==
    IF Scanner_peek(S) = None THEN [S EXCEPT !.panic = TRUE]
    ELSE IF Scanner_matches(S, "=") THEN add_token_default(Scanner_advance(S), two)
    ELSE add_token_default(S, one)

(* The match of scan_token on c = self.advance(), S being the scanner after it *)
scan_char(S, c) ==
    CASE c = "(" -> add_token_default(S, "LeftParen")
      [] c = ")" -> add_token_default(S, "RightParen")
      [] c = "{" -> add_token_default(S, "LeftBrace")
      [] c = "}" -> add_token_default(S, "RightBrace")
      [] c = "," -> add_token_default(S, "Comma")
      [] c = "." -> add_token_default(S, "Dot")
      [] c = "-" -> add_token_default(S, "Minus")
      [] c = "+" -> add_token_default(S, "Plus")
      [] c = ";" -> add_token_default(S, "Semicolon")
      [] c = "*" -> add_token_default(S, "Star")
      [] c = "!" -> OneOrTwo(S, "BangEqual", "Bang")
      [] c = "=" -> OneOrTwo(S, "EqualEqual", "Equal")
      [] c = "<" -> OneOrTwo(S, "LessEqual", "Less")
      [] c = ">" -> OneOrTwo(S, "GreaterEqual", "Greater")
      [] c = "/" -> IF Scanner_peek(S) = None THEN [S EXCEPT !.panic = TRUE]
                    ELSE IF Scanner_matches(S, "/") THEN comment(Scanner_advance(S))
                    ELSE add_token_default(S, "Slash")
      [] c \in {" ", "\r", "\t"} -> S
      [] c = "\n" -> [S EXCEPT !.line = @ + 1]
      [] c = "\"" -> string(S)
      [] OTHER -> IF is_ascii_digit(c) THEN number(S)
                  ELSE IF is_alpha(c) THEN identifier(S)
                  ELSE [S EXCEPT !.errs = Append(@, Lox_error(S.line,
                                                              "Unexpected character."))]

scan_token(S) ==
    IF nth(S, S.current) = None THEN [S EXCEPT !.panic = TRUE]
    ELSE scan_char(Scanner_advance(S), nth(S, S.current))

(* At most n rounds of the while loop of scan_tokens, a round being           *)
(* `self.start = self.current; self.scan_token();`.  The rounds are split in  *)
(* two halves, so that their evaluation nests log n deep.                     *)
RECURSIVE scan_loop(_, _)
scan_loop(S, n) ==
    IF S.panic \/ Scanner_is_at_end(S) THEN S
    ELSE IF n <= 1 THEN scan_token([S EXCEPT !.start = S.current])
    ELSE scan_loop(scan_loop(S, n \div 2), n - n \div 2)

(* Every round consumes a byte at least, so Len(S.source) rounds end the loop. *)
scan_tokens(S) ==
    Let(scan_loop(S, Len(S.source)), LAMBDA S1 :
        IF S1.panic THEN S1
        ELSE [S1 EXCEPT !.tokens = Append(@, Token("Eof", "", Nil, S1.line))])

-----------------------------------------------------------------------------
(* parser.rs.  The parser P is [tokens, current, errs, panic]: errs are the  *)
(* errors handed to Lox::token_error, panic is set when previous() is called *)
(* with current = 0 or peek() with current past the last token.  A Result<_, ParseError> with the parser after it is    *)
(* [P, kind, node].                                                          *)

Parser_new(tokens_) == [tokens |-> tokens_, current |-> 0, errs |-> <<>>, panic |-> FALSE]

POk(P, node) == [P |-> P, kind |-> "ok", node |-> node]

PErr(P) == [P |-> P, kind |-> "err", node |-> Nil]

(* The `?` operator on a parser result *)
PTry(r, K(_)) == IF r.kind # "ok" THEN r ELSE K(r)

(* `let r = ...;` where a panic in the initializer unwinds *)
PLet(r, K(_)) == IF r.P.panic THEN r ELSE K(r)

(* self.tokens.get(self.current) is None past the last token *)
NoToken == Token(None, "", NotExist, 0)

peek(P) == IF P.current < Len(P.tokens) THEN P.tokens[P.current + 1] ELSE NoToken

previous(P) == P.tokens[P.current]

is_at_end(P) == peek(P).type_ = "Eof"

check(P, t) == IF is_at_end(P) THEN FALSE ELSE peek(P).type_ = t

(* advance() without its test of is_at_end() *)
advance_unguarded(P) == [P EXCEPT !.current = @ + 1]

(* The parser after advance(); the token it returns is previous() of the result. *)
advance(P) ==
    IF ~is_at_end(P) THEN [P EXCEPT !.current = @ + 1]
    ELSE IF P.current = 0 THEN [P EXCEPT !.panic = TRUE]
    ELSE P

(* match_ is TRUE exactly when matches, and then the parser has advanced. *)
matches(P, types) == \E t \in types : check(P, t)

(* lib.rs: Lox::token_error and Lox::report *)
token_error(token, message) ==
    [line |-> token.line,
     where |-> IF token.type_ = "Eof" THEN " at end" ELSE " at '" \o token.lexeme \o "'",
     message |-> message]

error(P, token, message) == [P EXCEPT !.errs = Append(@, token_error(token, message))]

consume(P, t, message) ==
    IF check(P, t) THEN POk(advance(P), peek(P))
    ELSE PErr(error(P, peek(P), message))

RECURSIVE sync_loop(_)
sync_loop(P) ==
    IF peek(P) = NoToken THEN [P EXCEPT !.panic = TRUE]
    ELSE IF is_at_end(P) THEN P
    ELSE IF P.current = 0 THEN [P EXCEPT !.panic = TRUE]
    ELSE IF previous(P).type_ = "Semicolon" THEN P
    ELSE IF peek(P).type_ \in {"Class", "Fun", "Var", "For", "If", "While", "Print", "Return"}
    THEN P
    ELSE sync_loop(advance(P))

(* synchronize() without its first advance() *)
synchronize_in_place(P) == sync_loop(P)

synchronize(P) == sync_loop(advance(P))

(* The call of a method of the parser by a method: Parser_call, defined after *)
(* the methods, is the one recursive operator of the parser.                  *)
RECURSIVE Parser_call(_, _, _)

(* One round of the while loop of comparison, term and factor: the operator  *)
(* is matched and the right operand parsed before `expr?` and `right?`.      *)
BinaryRound(e, P1, r) ==
    IF e.kind # "ok" \/ r.kind # "ok" THEN PErr(r.P)
    ELSE POk(r.P, [k |-> "Binary", left |-> e.node, op |-> previous(P1), right |-> r.node])

primary(P) ==
    CASE matches(P, {"False"}) -> POk(advance(P), Literal(Bool(FALSE)))
      [] matches(P, {"True"}) -> POk(advance(P), Literal(Bool(TRUE)))
      [] matches(P, {"Nil"}) -> POk(advance(P), Literal(Nil))
      [] matches(P, {"Number", "String"}) -> POk(advance(P), Literal(peek(P).literal))
      [] matches(P, {"Identifier"}) -> POk(advance(P), [k |-> "Variable", name |-> peek(P)])
      [] matches(P, {"LeftParen"}) ->
            PLet(Parser_call("expression", advance(P), Nil), LAMBDA e :
            Let(consume(e.P, "RightParen", "Expect ')' after expression."), LAMBDA c :
                IF e.kind # "ok" THEN PErr(c.P)
                ELSE POk(c.P, [k |-> "Grouping", expression |-> e.node])))
      [] OTHER -> PErr(error(P, peek(P), "Expect expression."))

arguments_loop(P, arguments) ==
    PTry(Parser_call("expression", IF Len(arguments) >= 255
                    THEN error(P, peek(P), "Can't have more than 255 arguments.")
                    ELSE P, Nil), LAMBDA a :
         IF matches(a.P, {"Comma"})
         THEN Parser_call("arguments_loop", advance(a.P), Append(arguments, a.node))
         ELSE POk(a.P, Append(arguments, a.node)))

finish_call(P, callee) ==
    PTry(IF ~check(P, "RightParen") THEN Parser_call("arguments_loop", P, <<>>)
         ELSE POk(P, <<>>), LAMBDA a :
    PTry(consume(a.P, "RightParen", "Expect ')' after arguments."), LAMBDA paren :
         POk(paren.P, [k |-> "Call", callee |-> callee, paren |-> paren.node,
                       arguments |-> a.node])))

call_loop(e) ==
    IF e.P.panic THEN e
    ELSE IF matches(e.P, {"LeftParen"})
    THEN (IF e.kind # "ok" THEN PErr(advance(e.P))
          ELSE Parser_call("call_loop", Parser_call("finish_call", advance(e.P), e.node), Nil))
    ELSE e

call(P) == call_loop(primary(P))

unary(P) ==
    IF matches(P, {"Bang", "Minus"})
    THEN PTry(Parser_call("unary", advance(P), Nil), LAMBDA r :
              POk(r.P, [k |-> "Unary", op |-> peek(P), right |-> r.node]))
    ELSE call(P)

factor_loop(e) ==
    IF e.P.panic THEN e
    ELSE IF matches(e.P, {"Slash", "Star"})
    THEN Let(Parser_call("unary", advance(e.P), Nil), LAMBDA r :
             IF e.kind # "ok" \/ r.kind # "ok" THEN PErr(r.P)
             ELSE Parser_call("factor_loop", BinaryRound(e, advance(e.P), r), Nil))
    ELSE e

factor(P) == factor_loop(unary(P))

term_loop(e) ==
    IF e.P.panic THEN e
    ELSE IF matches(e.P, {"Minus", "Plus"})
    THEN Let(Parser_call("factor", advance(e.P), Nil), LAMBDA r :
             IF e.kind # "ok" \/ r.kind # "ok" THEN PErr(r.P)
             ELSE Parser_call("term_loop", BinaryRound(e, advance(e.P), r), Nil))
    ELSE e

(* term without the level of factor under it *)
term_of_unary(P) == term_loop(unary(P))

term(P) == term_loop(factor(P))

comparison_loop(e) ==
    IF e.P.panic THEN e
    ELSE IF matches(e.P, {"Greater", "GreaterEqual", "Less", "LessEqual"})
    THEN Let(Parser_call("term", advance(e.P), Nil), LAMBDA r :
             IF e.kind # "ok" \/ r.kind # "ok" THEN PErr(r.P)
             ELSE Parser_call("comparison_loop", BinaryRound(e, advance(e.P), r), Nil))
    ELSE e

comparison(P) == comparison_loop(term(P))

equality_loop(e) ==
    IF e.kind # "ok" THEN e
    ELSE IF matches(e.P, {"BangEqual", "EqualEqual"})
    THEN PTry(Parser_call("comparison", advance(e.P), Nil), LAMBDA r :
              Parser_call("equality_loop", BinaryRound(e, advance(e.P), r), Nil))
    ELSE e

equality(P) == equality_loop(comparison(P))

and_loop(e) ==
    IF e.kind # "ok" THEN e
    ELSE IF matches(e.P, {"And"})
    THEN PTry(Parser_call("equality", advance(e.P), Nil), LAMBDA r :
              Parser_call("and_loop",
                          POk(r.P, [k |-> "Logical", left |-> e.node, op |-> peek(e.P),
                                    right |-> r.node]), Nil))
    ELSE e

and_(P) == and_loop(equality(P))

or_loop(e) ==
    IF e.kind # "ok" THEN e
    ELSE IF matches(e.P, {"Or"})
    THEN PTry(Parser_call("and_", advance(e.P), Nil), LAMBDA r :
              Parser_call("or_loop",
                          POk(r.P, [k |-> "Logical", left |-> e.node, op |-> peek(e.P),
                                    right |-> r.node]), Nil))
    ELSE e

or_(P) == or_loop(and_(P))

(* An assignment to whatever stands left of `=` *)
assignment_to_any(P) ==
    PTry(or_(P), LAMBDA e :
         IF matches(e.P, {"Equal"})
         THEN PTry(Parser_call("assignment", advance(e.P), Nil), LAMBDA value :
                   POk(value.P, [k |-> "Assign",
                                 name |-> IF e.node.k = "Variable" THEN e.node.name
                                          ELSE P.tokens[1],
                                 value |-> value.node]))
         ELSE e)

assignment(P) ==
    PTry(or_(P), LAMBDA e :
         IF matches(e.P, {"Equal"})
         THEN PTry(Parser_call("assignment", advance(e.P), Nil), LAMBDA value :
                   IF e.node.k = "Variable"
                   THEN POk(value.P, [k |-> "Assign", name |-> e.node.name,
                                      value |-> value.node])
                   ELSE PErr(error(value.P, peek(e.P), "Invalid assignment target.")))
         ELSE e)

expression(P) == assignment(P)


(* Some(r?) *)
SomeNode(r) == IF r.kind # "ok" THEN r ELSE POk(r.P, <<r.node>>)

expr_stmt(P) ==
    PTry(Parser_call("expression", P, Nil), LAMBDA e :
    PTry(consume(e.P, "Semicolon", "Expect ';' after expression."), LAMBDA c :
         POk(c.P, [k |-> "Expr", expr |-> e.node])))

print_stmt(P) ==
    PTry(Parser_call("expression", P, Nil), LAMBDA e :
    PTry(consume(e.P, "Semicolon", "Expect ';' after value."), LAMBDA c :
         POk(c.P, [k |-> "Print", expr |-> e.node])))

var_decl(P) ==
    PTry(consume(P, "Identifier", "Expect variable name."), LAMBDA name :
    PTry(IF matches(name.P, {"Equal"}) THEN Parser_call("expression", advance(name.P), Nil)
         ELSE POk(name.P, Literal(Nil)), LAMBDA initializer :
         POk(consume(initializer.P, "Semicolon", "Expect ';' after variable declaration.").P,
             [k |-> "Var", name |-> name.node, initializer |-> initializer.node])))

(* The statement for_stmt builds from its clauses and its body *)
for_desugar(initializer, condition, increment, body) ==
    Let(IF increment # Literal(Nil)
        THEN [k |-> "Block", stmts |-> <<body, [k |-> "Expr", expr |-> increment]>>]
        ELSE body, LAMBDA body1 :
    Let([k |-> "While",
         condition |-> IF condition = Literal(Nil) THEN Literal(Bool(TRUE)) ELSE condition,
         body |-> body1], LAMBDA loop :
        IF initializer # <<>> THEN [k |-> "Block", stmts |-> <<initializer[1], loop>>]
        ELSE loop))

for_stmt(P) ==
    PTry(consume(P, "LeftParen", "Expect '(' after 'for'."), LAMBDA paren :
    PTry(IF matches(paren.P, {"Semicolon"}) THEN POk(advance(paren.P), <<>>)
         ELSE IF matches(paren.P, {"Var"})
         THEN SomeNode(Parser_call("var_decl", advance(paren.P), Nil))
         ELSE SomeNode(Parser_call("expr_stmt", paren.P, Nil)), LAMBDA initializer :
    PTry(IF ~check(initializer.P, "Semicolon")
         THEN Parser_call("expression", initializer.P, Nil)
         ELSE POk(initializer.P, Literal(Nil)), LAMBDA condition :
    PTry(consume(condition.P, "Semicolon", "Expect ';' after loop condition."), LAMBDA semi :
    PTry(IF ~check(semi.P, "RightParen") THEN Parser_call("expression", semi.P, Nil)
         ELSE POk(semi.P, Literal(Nil)), LAMBDA increment :
    PTry(consume(increment.P, "RightParen", "Expect ')' after for clauses."), LAMBDA close :
    PTry(Parser_call("statement", close.P, Nil), LAMBDA body :
         POk(body.P, for_desugar(initializer.node, condition.node, increment.node,
                                 body.node)))))))))

if_stmt(P) ==
    PTry(consume(P, "LeftParen", "Expect '(' after 'if'."), LAMBDA paren :
    PTry(Parser_call("expression", paren.P, Nil), LAMBDA condition :
    PTry(consume(condition.P, "RightParen", "Expect ')' after if condition."), LAMBDA close :
    PTry(Parser_call("statement", close.P, Nil), LAMBDA then_branch :
    PTry(IF matches(then_branch.P, {"Else"})
         THEN SomeNode(Parser_call("statement", advance(then_branch.P), Nil))
         ELSE POk(then_branch.P, <<>>), LAMBDA else_branch :
         POk(else_branch.P, [k |-> "If", condition |-> condition.node,
                             then_branch |-> then_branch.node,
                             else_branch |-> else_branch.node]))))))

while_stmt(P) ==
    PTry(consume(P, "LeftParen", "Expect '(' after 'while'."), LAMBDA paren :
    PTry(Parser_call("expression", paren.P, Nil), LAMBDA condition :
    PTry(consume(condition.P, "RightParen", "Expect ')' after after condition."), LAMBDA close :
    PTry(Parser_call("statement", close.P, Nil), LAMBDA body :
         POk(body.P, [k |-> "While", condition |-> condition.node, body |-> body.node])))))

block_loop(P, stmts_) ==
    IF P.panic THEN PErr(P)
    ELSE IF ~check(P, "RightBrace") /\ ~is_at_end(P)
    THEN PTry(Parser_call("declaration", P, Nil), LAMBDA d :
              Parser_call("block_loop", d.P, Append(stmts_, d.node)))
    ELSE PTry(consume(P, "RightBrace", "Expect '}' after block."), LAMBDA c :
              POk(c.P, stmts_))

block(P) == block_loop(P, <<>>)

statement(P) ==
    CASE matches(P, {"For"}) -> Parser_call("for_stmt", advance(P), Nil)
      [] matches(P, {"If"}) -> Parser_call("if_stmt", advance(P), Nil)
      [] matches(P, {"Print"}) -> Parser_call("print_stmt", advance(P), Nil)
      [] matches(P, {"While"}) -> Parser_call("while_stmt", advance(P), Nil)
      [] matches(P, {"LeftBrace"}) ->
            PTry(block(advance(P)), LAMBDA b : POk(b.P, [k |-> "Block", stmts |-> b.node]))
      [] OTHER -> Parser_call("expr_stmt", P, Nil)

parameters_loop(P, params) ==
    PTry(consume(IF Len(params) >= 255
                 THEN error(P, peek(P), "Can't have more than 255 parameters.")
                 ELSE P, "Identifier", "Expect parameter name."), LAMBDA param :
         IF matches(param.P, {"Comma"})
         THEN Parser_call("parameters_loop", advance(param.P), Append(params, param.node))
         ELSE POk(param.P, Append(params, param.node)))

function(P, kind) ==
    PTry(consume(P, "Identifier", "Expect " \o kind \o " name."), LAMBDA name :
    PTry(consume(name.P, "LeftParen", "Expect '(' after " \o kind \o " name."), LAMBDA paren :
    PTry(IF ~check(paren.P, "RightParen") THEN Parser_call("parameters_loop", paren.P, <<>>)
         ELSE POk(paren.P, <<>>), LAMBDA params :
    PTry(consume(params.P, "RightParen", "Expect ')' after parameters."), LAMBDA close :
    PTry(consume(close.P, "LeftBrace", "Expect '{' before " \o kind \o " body."), LAMBDA brace :
    PTry(Parser_call("block", brace.P, Nil), LAMBDA body :
         POk(body.P, FunctionDecl(name.node, params.node, body.node))))))))

declaration_helper(P) ==
    CASE matches(P, {"Fun"}) -> Parser_call("function", advance(P), "function")
      [] matches(P, {"Var"}) -> Parser_call("var_decl", advance(P), Nil)
      [] OTHER -> statement(P)

declaration(P) ==
    PLet(declaration_helper(P), LAMBDA d :
        IF d.kind = "ok" THEN d
        ELSE POk(synchronize(d.P), [k |-> "Expr", expr |-> Literal(Nil)]))

(* The while loop of Parser::parse *)
parse_loop(P, statements) ==
    IF P.panic THEN PErr(P)
    ELSE IF ~is_at_end(P)
    THEN PTry(Parser_call("declaration", P, Nil), LAMBDA d :
              Parser_call("parse_loop", d.P, Append(statements, d.node)))
    ELSE POk(P, statements)

parse(P) == Parser_call("parse_loop", P, <<>>)

(* The call of the method named: x is its parser (for the loops of the      *)
(* binary operators, the result so far) and y its other argument, if any.    *)
(* x is evaluated before the method is entered, as an argument is in Rust.   *)
Parser_call(method, x, y) ==
    CASE x = x /\ method = "primary" -> primary(x)
      [] method = "call_loop" -> call_loop(x)
      [] method = "call" -> call(x)
      [] method = "unary" -> unary(x)
      [] method = "factor_loop" -> factor_loop(x)
      [] method = "factor" -> factor(x)
      [] method = "term_loop" -> term_loop(x)
      [] method = "term" -> term(x)
      [] method = "comparison_loop" -> comparison_loop(x)
      [] method = "comparison" -> comparison(x)
      [] method = "equality_loop" -> equality_loop(x)
      [] method = "equality" -> equality(x)
      [] method = "and_loop" -> and_loop(x)
      [] method = "and_" -> and_(x)
      [] method = "or_loop" -> or_loop(x)
      [] method = "or_" -> or_(x)
      [] method = "assignment" -> assignment(x)
      [] method = "expression" -> expression(x)
      [] method = "expr_stmt" -> expr_stmt(x)
      [] method = "print_stmt" -> print_stmt(x)
      [] method = "var_decl" -> var_decl(x)
      [] method = "for_stmt" -> for_stmt(x)
      [] method = "if_stmt" -> if_stmt(x)
      [] method = "while_stmt" -> while_stmt(x)
      [] method = "block" -> block(x)
      [] method = "statement" -> statement(x)
      [] method = "declaration_helper" -> declaration_helper(x)
      [] method = "declaration" -> declaration(x)
      [] method = "arguments_loop" -> arguments_loop(x, y)
      [] method = "finish_call" -> finish_call(x, y)
      [] method = "block_loop" -> block_loop(x, y)
      [] method = "parameters_loop" -> parameters_loop(x, y)
      [] method = "function" -> function(x, y)
      [] method = "parse_loop" -> parse_loop(x, y)

-----------------------------------------------------------------------------
(* The interpreter of the current state, and the state after an operation *)

Interp ==
    [envs |-> environments, env |-> env, globals |-> globals, out |-> output,
     err |-> reported, trace |-> trace, fuel |-> MaxSteps]

Identifier(name) == Token("Identifier", name, String(name), 1)

Variable(name) == [k |-> "Variable", name |-> Identifier(name)]

Assign(name, value) == [k |-> "Assign", name |-> Identifier(name), value |-> value]

Var(name, initializer) == [k |-> "Var", name |-> Identifier(name), initializer |-> initializer]

-----------------------------------------------------------------------------
(* EnvSpec: Expr::Variable, Expr::Assign and Stmt::Var, that is              *)
(* Environment::get, assign and define, applied once to every heap of at most *)
(* MaxScopes environments.  A heap of the interpreter is a tree rooted at    *)
(* the globals (environment 1, which defines clock): a block's environment   *)
(* encloses the current one, a call's environment the closure of the callee. *)
(* Scope i binds each of its names to Number(i).                             *)

EnvNames == {"a", "b"}

OpValues == {Number(7), Nil}

EnvHeaps(n) ==
    {h \in [1..n -> [names : SUBSET EnvNames, enclosing : 0..(n - 1)]] :
        /\ h[1].enclosing = 0
        /\ \A i \in 2..n : h[i].enclosing \in 1..(i - 1)}

EnvHeap(h) ==
    [i \in DOMAIN h |->
        [values |-> IF i = 1
                    THEN [x \in h[i].names \cup {"clock"} |-> IF x = "clock" THEN Clock ELSE Number(i)]
                    ELSE IF h[i].names = {} THEN <<>>
                    ELSE [x \in h[i].names |-> Number(i)],
         enclosing |-> h[i].enclosing]]

NoOp == [op |-> "none"]

EnvInit ==
    /\ pc = "env"
    /\ \E n \in 1..MaxScopes : \E h \in EnvHeaps(n) :
          /\ environments = EnvHeap(h)
          /\ env \in 1..n
    /\ globals = 1
    /\ source = <<>> /\ tokens = <<>> /\ stmts = <<>> /\ idx = 0
    /\ output = <<>> /\ reported = <<>> /\ trace = <<>>
    /\ hadError = FALSE /\ hadRuntimeError = FALSE
    /\ last = NoOp

EnvApplied(op, name, value, r) ==
    /\ pc' = "envdone"
    /\ environments' = r.I.envs
    /\ env' = r.I.env
    /\ last' = [op |-> op, name |-> name, value |-> value, self |-> env,
                pre |-> environments, res |-> r.res]
    /\ UNCHANGED <<source, tokens, stmts, idx, globals, output, reported, hadError,
                   hadRuntimeError, trace>>

EnvGet ==
    /\ pc = "env"
    /\ \E name \in EnvNames :
          EnvApplied("get", name, Nil, evaluate(Interp, Variable(name)))

EnvAssign ==
    /\ pc = "env"
    /\ \E name \in EnvNames : \E value \in OpValues :
          EnvApplied("assign", name, value, evaluate(Interp, Assign(name, Literal(value))))

EnvDefine ==
    /\ pc = "env"
    /\ \E name \in EnvNames : \E value \in OpValues :
          EnvApplied("define", name, value, execute(Interp, Var(name, Literal(value))))

EnvNext == EnvGet \/ EnvAssign \/ EnvDefine

EnvSpec == EnvInit /\ [][EnvNext]_vars

-----------------------------------------------------------------------------
(* Vocabulary of the claims about the environment chain *)

RECURSIVE ScopeChain(_, _)
ScopeChain(envs, e) ==
    IF e = 0 THEN <<>> ELSE <<e>> \o ScopeChain(envs, envs[e].enclosing)

(* The positions in the chain of e of the scopes that define name *)
Defining(envs, e, name) ==
    {i \in 1..Len(ScopeChain(envs, e)) : name \in DOMAIN envs[ScopeChain(envs, e)[i]].values}

Innermost(envs, e, name) ==
    ScopeChain(envs, e)[CHOOSE i \in Defining(envs, e, name) :
                            \A j \in Defining(envs, e, name) : i <= j]

UndefinedMessage(name) == "Undefined variable '" \o name \o "'."

EnvDone(op) == pc = "envdone" /\ last.op = op

(* C1: get returns the value bound in the innermost scope of the chain that  *)
(* defines the name, and fails with "Undefined variable" exactly when no     *)
(* scope of the chain defines it.                                            *)
C1_GetInnermost ==
    EnvDone("get") =>
        /\ Defining(last.pre, last.self, last.name) # {} =>
              last.res = Ok(last.pre[Innermost(last.pre, last.self, last.name)].values[last.name])
        /\ Defining(last.pre, last.self, last.name) = {} =>
              /\ last.res.kind = "err"
              /\ last.res.message = UndefinedMessage(last.name)
        /\ last.res.kind = "err" => Defining(last.pre, last.self, last.name) = {}

(* A get answered by a scope that is not the current one, with a scope       *)
(* further out defining the name too.                                        *)
C1_Witness ==
    /\ EnvDone("get")
    /\ last.res.kind = "ok"
    /\ 1 \notin Defining(last.pre, last.self, last.name)
    /\ Cardinality(Defining(last.pre, last.self, last.name)) >= 2

(* C2: assign to a name some scope of the chain defines replaces the binding *)
(* in the innermost such scope only; every other scope and every other name  *)
(* is unchanged and no binding is added.                                     *)
C2_AssignInnermostOnly ==
    (EnvDone("assign") /\ Defining(last.pre, last.self, last.name) # {}) =>
        /\ last.res = Ok(last.value)
        /\ Len(environments) = Len(last.pre)
        /\ \A e \in 1..Len(last.pre) :
              /\ environments[e].enclosing = last.pre[e].enclosing
              /\ DOMAIN environments[e].values = DOMAIN last.pre[e].values
              /\ \A n \in DOMAIN last.pre[e].values :
                    environments[e].values[n] =
                        IF e = Innermost(last.pre, last.self, last.name) /\ n = last.name
                        THEN last.value
                        ELSE last.pre[e].values[n]

(* An assignment that lands in an enclosing scope while a scope further out  *)
(* defines the name too.                                                     *)
C2_Witness ==
    /\ EnvDone("assign")
    /\ last.res.kind = "ok"
    /\ 1 \notin Defining(last.pre, last.self, last.name)
    /\ Cardinality(Defining(last.pre, last.self, last.name)) >= 2
    /\ Cardinality(DOMAIN last.pre[Innermost(last.pre, last.self, last.name)].values) >= 2

(* C3: assign to a name no scope of the chain defines fails with "Undefined  *)
(* variable" and leaves every scope unchanged: the name is still undefined.  *)
C3_AssignUndefinedFails ==
    (EnvDone("assign") /\ Defining(last.pre, last.self, last.name) = {}) =>
        /\ last.res.kind = "err"
        /\ last.res.message = UndefinedMessage(last.name)
        /\ environments = last.pre
        /\ Defining(environments, last.self, last.name) = {}

(* A failed assignment from a nested scope *)
C3_Witness ==
    /\ EnvDone("assign")
    /\ last.res.kind = "err"
    /\ Len(ScopeChain(last.pre, last.self)) >= 2

(* C4: define adds or replaces the binding in the current scope only; no     *)
(* other scope is modified, even when an enclosing scope defines the name.   *)
C4_DefineCurrentOnly ==
    EnvDone("define") =>
        /\ last.res = Ok(last.value)
        /\ Len(environments) = Len(last.pre)
        /\ \A e \in 1..Len(last.pre) : e # last.self => environments[e] = last.pre[e]
        /\ environments[last.self].enclosing = last.pre[last.self].enclosing
        /\ DOMAIN environments[last.self].values =
              (DOMAIN last.pre[last.self].values) \cup {last.name}
        /\ \A n \in DOMAIN environments[last.self].values :
              environments[last.self].values[n] =
                  IF n = last.name THEN last.value ELSE last.pre[last.self].values[n]

(* A redefinition in a scope whose enclosing scope defines the name too *)
C4_Witness ==
    /\ EnvDone("define")
    /\ last.name \in DOMAIN last.pre[last.self].values
    /\ last.pre[last.self].values[last.name] # last.value
    /\ 2 \in Defining(last.pre, last.self, last.name)

(* A first definition of a name an enclosing scope already defines *)
C4_WitnessShadow ==
    /\ EnvDone("define")
    /\ last.name \notin DOMAIN last.pre[last.self].values
    /\ 2 \in Defining(last.pre, last.self, last.name)

-----------------------------------------------------------------------------
(* The sources handed to Lox::run: the programs below, and every two of the  *)
(* fragments on two lines.                                                   *)

Fragments ==
    {(*   print 1; *)
     <<"p", "r", "i", "n", "t", " ", "1", ";">>,
     (*   print x; *)
     <<"p", "r", "i", "n", "t", " ", "x", ";">>,
     (*   var x = 2; *)
     <<"v", "a", "r", " ", "x", " ", "=", " ", "2", ";">>,
     (*   { print x; print 3; } *)
     <<"{", " ", "p", "r", "i", "n", "t", " ", "x", ";", " ", "p", "r", "i", "n",
       "t", " ", "3", ";", " ", "}">>,
     (*   { var x = 4; print x; } *)
     <<"{", " ", "v", "a", "r", " ", "x", " ", "=", " ", "4", ";", " ", "p", "r",
       "i", "n", "t", " ", "x", ";", " ", "}">>,
     (*   fun f() { print x; } f(); *)
     <<"f", "u", "n", " ", "f", "(", ")", " ", "{", " ", "p", "r", "i", "n", "t",
       " ", "x", ";", " ", "}", " ", "f", "(", ")", ";">>,
     (*   fun g(n) { n + nil; print n; } g(5); *)
     <<"f", "u", "n", " ", "g", "(", "n", ")", " ", "{", " ", "n", " ", "+", " ",
       "n", "i", "l", ";", " ", "p", "r", "i", "n", "t", " ", "n", ";", " ", "}",
       " ", "g", "(", "5", ")", ";">>,
     (*   { print 6; -"s"; } *)
     <<"{", " ", "p", "r", "i", "n", "t", " ", "6", ";", " ", "-", "\"", "s", "\"",
       ";", " ", "}">>,
     (*   print ; *)
     <<"p", "r", "i", "n", "t", " ", ";">>,
     (*   print 1 @; *)
     <<"p", "r", "i", "n", "t", " ", "1", " ", "@", ";">>,
     (*   "abc *)
     <<"\"", "a", "b", "c">>,
     (*   return 1; *)
     <<"r", "e", "t", "u", "r", "n", " ", "1", ";">>,
     (*   x = x + 1.5; // x *)
     <<"x", " ", "=", " ", "x", " ", "+", " ", "1", ".", "5", ";", " ", "/", "/",
       " ", "x", "\n">>,
     (*   while (x < 4) x = x * 2; *)
     <<"w", "h", "i", "l", "e", " ", "(", "x", " ", "<", " ", "4", ")", " ", "x",
       " ", "=", " ", "x", " ", "*", " ", "2", ";">>,
     (*   if (x == 2 or x >= 4) print "y"; else print !x; *)
     <<"i", "f", " ", "(", "x", " ", "=", "=", " ", "2", " ", "o", "r", " ", "x",
       " ", ">", "=", " ", "4", ")", " ", "p", "r", "i", "n", "t", " ", "\"", "y",
       "\"", ";", " ", "e", "l", "s", "e", " ", "p", "r", "i", "n", "t", " ", "!",
       "x", ";">>,
     (*   for (var i = 0; i < 2; i = i + 1) print i / 2; *)
     <<"f", "o", "r", " ", "(", "v", "a", "r", " ", "i", " ", "=", " ", "0", ";",
       " ", "i", " ", "<", " ", "2", ";", " ", "i", " ", "=", " ", "i", " ", "+",
       " ", "1", ")", " ", "p", "r", "i", "n", "t", " ", "i", " ", "/", " ", "2",
       ";">>,
     (*   while (true) x = 1; *)
     <<"w", "h", "i", "l", "e", " ", "(", "t", "r", "u", "e", ")", " ", "x", " ",
       "=", " ", "1", ";">>}

(*   var a = outer; { var a = inner; print a; } print a; *)
ShadowSource(outer, inner) ==
    <<"v", "a", "r", " ", "a", " ", "=", " ", outer, ";", " ",
      "{", " ", "v", "a", "r", " ", "a", " ", "=", " ", inner,
      ";", " ", "p", "r", "i", "n", "t", " ", "a", ";", " ", "}", " ", "p",
      "r", "i", "n", "t", " ", "a", ";">>

(*   var x = "global"; *)
(*   fun f() { print x; } *)
(*   { var x = "block"; f(); } *)
GlobalClosureProgram ==
    <<"v", "a", "r", " ", "x", " ", "=", " ", "\"", "g", "l", "o", "b", "a",
      "l", "\"", ";", "\n", "f", "u", "n", " ", "f", "(", ")", " ", "{", " ",
      "p", "r", "i", "n", "t", " ", "x", ";", " ", "}", "\n", "{", " ", "v",
      "a", "r", " ", "x", " ", "=", " ", "\"", "b", "l", "o", "c", "k", "\"",
      ";", " ", "f", "(", ")", ";", " ", "}">>

(*   { var x = "outer"; fun f() { print x; } *)
(*     { var x = "inner"; f(); } } *)
BlockClosureProgram ==
    <<"{", " ", "v", "a", "r", " ", "x", " ", "=", " ", "\"", "o", "u", "t",
      "e", "r", "\"", ";", " ", "f", "u", "n", " ", "f", "(", ")", " ", "{",
      " ", "p", "r", "i", "n", "t", " ", "x", ";", " ", "}", "\n", " ", " ",
      "{", " ", "v", "a", "r", " ", "x", " ", "=", " ", "\"", "i", "n", "n",
      "e", "r", "\"", ";", " ", "f", "(", ")", ";", " ", "}", " ", "}">>

(*   fun makeCounter() { *)
(*     var i = 0; *)
(*     fun count() { i = i + 1; return i; } *)
(*     return count; *)
(*   } *)
(*   var a = makeCounter(); *)
(*   var b = makeCounter(); *)
(*   print a(); print a(); print b(); *)
CounterProgram ==
    <<"f", "u", "n", " ", "m", "a", "k", "e", "C", "o", "u", "n", "t", "e",
      "r", "(", ")", " ", "{", "\n", " ", " ", "v", "a", "r", " ", "i", " ",
      "=", " ", "0", ";", "\n", " ", " ", "f", "u", "n", " ", "c", "o", "u",
      "n", "t", "(", ")", " ", "{", " ", "i", " ", "=", " ", "i", " ", "+",
      " ", "1", ";", " ", "r", "e", "t", "u", "r", "n", " ", "i", ";", " ",
      "}", "\n", " ", " ", "r", "e", "t", "u", "r", "n", " ", "c", "o", "u",
      "n", "t", ";", "\n", "}", "\n", "v", "a", "r", " ", "a", " ", "=", " ",
      "m", "a", "k", "e", "C", "o", "u", "n", "t", "e", "r", "(", ")", ";",
      "\n", "v", "a", "r", " ", "b", " ", "=", " ", "m", "a", "k", "e", "C",
      "o", "u", "n", "t", "e", "r", "(", ")", ";", "\n", "p", "r", "i", "n",
      "t", " ", "a", "(", ")", ";", " ", "p", "r", "i", "n", "t", " ", "a",
      "(", ")", ";", " ", "p", "r", "i", "n", "t", " ", "b", "(", ")", ";">>

(*   var c; *)
(*   fun make() { var i = 0; fun count() { i = i + 1; print i; } c = count; } *)
(*   make(); var a = c; make(); a(); a(); c(); *)
AssignedCounterProgram ==
    <<"v", "a", "r", " ", "c", ";", "\n", "f", "u", "n", " ", "m", "a", "k",
      "e", "(", ")", " ", "{", " ", "v", "a", "r", " ", "i", " ", "=", " ",
      "0", ";", " ", "f", "u", "n", " ", "c", "o", "u", "n", "t", "(", ")",
      " ", "{", " ", "i", " ", "=", " ", "i", " ", "+", " ", "1", ";", " ",
      "p", "r", "i", "n", "t", " ", "i", ";", " ", "}", " ", "c", " ", "=",
      " ", "c", "o", "u", "n", "t", ";", " ", "}", "\n", "m", "a", "k", "e",
      "(", ")", ";", " ", "v", "a", "r", " ", "a", " ", "=", " ", "c", ";",
      " ", "m", "a", "k", "e", "(", ")", ";", " ", "a", "(", ")", ";", " ",
      "a", "(", ")", ";", " ", "c", "(", ")", ";">>

(* A malformed statement, to be followed by two well-formed ones:          *)
(*   print ;     var 1;     (1;     print 1 2;     print 1                    *)
(* (the last one lacks its semicolon)                                        *)
Malformed ==
    {<<"p", "r", "i", "n", "t", " ", ";">>,
     <<"v", "a", "r", " ", "1", ";">>,
     <<"(", "1", ";">>,
     <<"p", "r", "i", "n", "t", " ", "1", " ", "2", ";">>,
     <<"p", "r", "i", "n", "t", " ", "1">>}

MissingSemicolon == <<"p", "r", "i", "n", "t", " ", "1">>

(*   <malformed> print 2; var y = 3; *)
RecoverySource(malformed) ==
    malformed \o
    <<" ", "p", "r", "i", "n", "t", " ", "2", ";", " ", "v", "a", "r", " ",
      "y", " ", "=", " ", "3", ";">>

(* The loop conditions of ForSource and WhileSource:                      *)
(*   i < 3     i < 0     false     nil                                        *)
Conditions ==
    {<<"i", " ", "<", " ", "3">>,
     <<"i", " ", "<", " ", "0">>,
     <<"f", "a", "l", "s", "e">>,
     <<"n", "i", "l">>}

(* No condition clause:   for (var i = 0; ; i = i + 1) print i; *)
OmittedCondition == <<>>

(*   for (var i = 0; <condition>; i = i + 1) print i; *)
ForSource(condition) ==
    <<"f", "o", "r", " ", "(", "v", "a", "r", " ", "i", " ", "=", " ", "0",
      ";", " ">>
    \o condition \o
    <<";", " ", "i", " ", "=", " ", "i", " ", "+", " ", "1", ")", " ", "p",
      "r", "i", "n", "t", " ", "i", ";">>

(*   { var i = 0; while (<condition>) { print i; i = i + 1; } } *)
WhileSource(condition) ==
    <<"{", " ", "v", "a", "r", " ", "i", " ", "=", " ", "0", ";", " ", "w",
      "h", "i", "l", "e", " ", "(">>
    \o condition \o
    <<")", " ", "{", " ", "p", "r", "i", "n", "t", " ", "i", ";", " ", "i",
      " ", "=", " ", "i", " ", "+", " ", "1", ";", " ", "}", " ", "}">>

(* Statements that return from the function around them, at several depths: *)
(*   return 7;     { return 7; }     if (true) return 7;                      *)
(*   while (true) { if (true) { return 7; } }                                 *)
Returning ==
    {<<"r", "e", "t", "u", "r", "n", " ", "7", ";">>,
     <<"{", " ", "r", "e", "t", "u", "r", "n", " ", "7", ";", " ", "}">>,
     <<"i", "f", " ", "(", "t", "r", "u", "e", ")", " ", "r", "e", "t", "u",
       "r", "n", " ", "7", ";">>,
     <<"w", "h", "i", "l", "e", " ", "(", "t", "r", "u", "e", ")", " ", "{",
       " ", "i", "f", " ", "(", "t", "r", "u", "e", ")", " ", "{", " ", "r",
       "e", "t", "u", "r", "n", " ", "7", ";", " ", "}", " ", "}">>}

ReturnNothing == <<"r", "e", "t", "u", "r", "n", ";">>

(*   fun f() { <first> print 2; } print f(); *)
FunctionSource(first) ==
    <<"f", "u", "n", " ", "f", "(", ")", " ", "{", " ">>
    \o first \o
    <<" ", "p", "r", "i", "n", "t", " ", "2", ";", " ", "}", " ", "p", "r",
      "i", "n", "t", " ", "f", "(", ")", ";">>

(* Argument lists with the number of their arguments:                      *)
(*   (none)     1     1, 2     1, 2, 3                                        *)
ArgumentLists ==
    {[text |-> <<>>, count |-> 0],
     [text |-> <<"1">>, count |-> 1],
     [text |-> <<"1", ",", " ", "2">>, count |-> 2],
     [text |-> <<"1", ",", " ", "2", ",", " ", "3">>, count |-> 3]}

(*   fun g(a, b) { print a; print b; }                                        *)
(*   g(<arguments>                                                           *)
(*   );                                                                      *)
AritySource(arguments) ==
    <<"f", "u", "n", " ", "g", "(", "a", ",", " ", "b", ")", " ", "{", " ",
      "p", "r", "i", "n", "t", " ", "a", ";", " ", "p", "r", "i", "n", "t",
      " ", "b", ";", " ", "}", "\n", "g", "(">>
    \o arguments \o
    <<"\n", ")", ";">>

(* Callees, with whether their value is a LoxCallable:                     *)
(*   f     clock     "s"     1     nil     true                               *)
Callees ==
    {[text |-> <<"f">>, callable |-> TRUE],
     [text |-> <<"c", "l", "o", "c", "k">>, callable |-> TRUE],
     [text |-> <<"\"", "s", "\"">>, callable |-> FALSE],
     [text |-> <<"1">>, callable |-> FALSE],
     [text |-> <<"n", "i", "l">>, callable |-> FALSE],
     [text |-> <<"t", "r", "u", "e">>, callable |-> FALSE]}

(*   fun f() { print 1; }                                                     *)
(*   print <callee>();                                                        *)
CallSource(callee) ==
    <<"f", "u", "n", " ", "f", "(", ")", " ", "{", " ", "p", "r", "i", "n",
      "t", " ", "1", ";", " ", "}", "\n", "p", "r", "i", "n", "t", " ">>
    \o callee \o
    <<"(", ")", ";">>

(* Operands, with the kind of their value:                                 *)
(*   1     2     "hello "     "world"     true     nil     f                  *)
Operands ==
    {[text |-> <<"1">>, kind |-> "Number"],
     [text |-> <<"2">>, kind |-> "Number"],
     [text |-> <<"\"", "h", "e", "l", "l", "o", " ", "\"">>, kind |-> "String"],
     [text |-> <<"\"", "w", "o", "r", "l", "d", "\"">>, kind |-> "String"],
     [text |-> <<"t", "r", "u", "e">>, kind |-> "Bool"],
     [text |-> <<"n", "i", "l">>, kind |-> "Nil"],
     [text |-> <<"f">>, kind |-> "Function"]}

(*   g     clock *)
Callables ==
    {[text |-> <<"g">>, kind |-> "Function"],
     [text |-> <<"c", "l", "o", "c", "k">>, kind |-> "Clock"]}

(* The binary operators on two Numbers, with their token *)
NumberOperators ==
    {[text |-> <<"-">>, type_ |-> "Minus", lexeme |-> "-"],
     [text |-> <<"*">>, type_ |-> "Star", lexeme |-> "*"],
     [text |-> <<"/">>, type_ |-> "Slash", lexeme |-> "/"],
     [text |-> <<">">>, type_ |-> "Greater", lexeme |-> ">"],
     [text |-> <<">", "=">>, type_ |-> "GreaterEqual", lexeme |-> ">="],
     [text |-> <<"<">>, type_ |-> "Less", lexeme |-> "<"],
     [text |-> <<"<", "=">>, type_ |-> "LessEqual", lexeme |-> "<="]}

PlusOperator == [text |-> <<"+">>, type_ |-> "Plus", lexeme |-> "+"]

EqualityOperators ==
    {[text |-> <<"=", "=">>, type_ |-> "EqualEqual", lexeme |-> "=="],
     [text |-> <<"!", "=">>, type_ |-> "BangEqual", lexeme |-> "!="]}

(*   fun f() {}                                                               *)
(*   fun g() {}                                                               *)
(*   print <left> <op> <right>;                                               *)
BinarySource(left, op, right) ==
    <<"f", "u", "n", " ", "f", "(", ")", " ", "{", "}", "\n", "f", "u", "n",
      " ", "g", "(", ")", " ", "{", "}", "\n", "p", "r", "i", "n", "t", " ">>
    \o left \o <<" ">> \o op \o <<" ">> \o right \o <<";">>

BinarySources ==
    {BinarySource(l.text, o.text, r.text) :
         l \in Operands, o \in NumberOperators \cup {PlusOperator}, r \in Operands}
    \cup {BinarySource(l.text, o.text, r.text) :
              l \in Operands \cup Callables, o \in EqualityOperators,
              r \in Operands \cup Callables}

(* Left operands of and, or: the text, what print shows, and is_truthy:      *)
(*   nil     false     true     0     "s"                                     *)
LeftOperands ==
    {[text |-> <<"n", "i", "l">>, shown |-> "nil", truthy |-> FALSE],
     [text |-> <<"f", "a", "l", "s", "e">>, shown |-> "false", truthy |-> FALSE],
     [text |-> <<"t", "r", "u", "e">>, shown |-> "true", truthy |-> TRUE],
     [text |-> <<"0">>, shown |-> "0", truthy |-> TRUE],
     [text |-> <<"\"", "s", "\"">>, shown |-> "s", truthy |-> TRUE]}

LogicalOperators == {<<"a", "n", "d">>, <<"o", "r">>}

(*   var x = 0;                                                               *)
(*   print <left> <op> (x = 5);                                               *)
(*   print x;                                                                 *)
LogicalSource(left, op) ==
    <<"v", "a", "r", " ", "x", " ", "=", " ", "0", ";", "\n", "p", "r", "i",
      "n", "t", " ">>
    \o left \o <<" ">> \o op \o
    <<" ", "(", "x", " ", "=", " ", "5", ")", ";", "\n", "p", "r", "i", "n",
      "t", " ", "x", ";">>

(* Characters no lexeme starts with:   @     #     U+00E9, two bytes in UTF-8 *)
Unrecognized == {<<"@">>, <<"#">>, <<Lead, Continuation>>}

(*   <c> var x = 1; *)
UnrecognizedSource(c) ==
    c \o <<" ", "v", "a", "r", " ", "x", " ", "=", " ", "1", ";">>

(*   print 1; "abc *)
UnterminatedSource ==
    <<"p", "r", "i", "n", "t", " ", "1", ";", " ", "\"", "a", "b", "c">>

(*   // <c> *)
CommentSource(c) == <<"/", "/", " ">> \o c

(* The infix operators:  or and == != < <= > >= + - * /   and the prefix:  ! - *)
Infix ==
    {<<"o", "r">>, <<"a", "n", "d">>, <<"=", "=">>, <<"!", "=">>, <<"<">>, <<"<", "=">>,
     <<">">>, <<">", "=">>, <<"+">>, <<"-">>, <<"*">>, <<"/">>}

Prefix == {<<"!">>, <<"-">>}

(*   a <first> b <second> c; *)
InfixSource(first, second) ==
    <<"a", " ">> \o first \o <<" ", "b", " ">> \o second \o <<" ", "c", ";">>

(*   <prefix>a <infix> b; *)
PrefixSource(prefix, infix) == prefix \o <<"a", " ">> \o infix \o <<" ", "b", ";">>

(*   a = b = c; *)
AssignTwiceSource == <<"a", " ", "=", " ", "b", " ", "=", " ", "c", ";">>

(*   !-a; *)
PrefixTwiceSource == <<"!", "-", "a", ";">>

(*   -a(); *)
PrefixCallSource == <<"-", "a", "(", ")", ";">>

(*   (5 - (3 - 1)) + -1; *)
GroupingSource ==
    <<"(", "5", " ", "-", " ", "(", "3", " ", "-", " ", "1", ")", ")", " ",
      "+", " ", "-", "1", ";">>

PrecedenceSources ==
    {InfixSource(o1, o2) : o1 \in Infix, o2 \in Infix}
    \cup {PrefixSource(u, o) : u \in Prefix, o \in Infix}
    \cup {AssignTwiceSource, PrefixTwiceSource, PrefixCallSource, GroupingSource}

(* Left-hand sides of an assignment, and whether they are a bare variable:  *)
(*   a   xs   1   "s"   nil   (a)   a + b   a == b   -a   f()   a or b        *)
Targets ==
    {[text |-> <<"a">>, variable |-> TRUE],
     [text |-> <<"x", "s">>, variable |-> TRUE],
     [text |-> <<"1">>, variable |-> FALSE],
     [text |-> <<"\"", "s", "\"">>, variable |-> FALSE],
     [text |-> <<"n", "i", "l">>, variable |-> FALSE],
     [text |-> <<"(", "a", ")">>, variable |-> FALSE],
     [text |-> <<"a", " ", "+", " ", "b">>, variable |-> FALSE],
     [text |-> <<"a", " ", "=", "=", " ", "b">>, variable |-> FALSE],
     [text |-> <<"-", "a">>, variable |-> FALSE],
     [text |-> <<"f", "(", ")">>, variable |-> FALSE],
     [text |-> <<"a", " ", "o", "r", " ", "b">>, variable |-> FALSE]}

(*   <target> = 2; *)
TargetSource(target) == target \o <<" ", "=", " ", "2", ";">>

(* Statements whose first error is met inside a grouping, or before an     *)
(* operator:   print (;     (;     < < 1;     * / 1;                          *)
Cascading ==
    {<<"p", "r", "i", "n", "t", " ", "(", ";">>,
     <<"(", ";">>,
     <<"<", " ", "<", " ", "1", ";">>,
     <<"*", " ", "/", " ", "1", ";">>}

Literals == {"1", "2", "7"}

Programs ==
    {GlobalClosureProgram, BlockClosureProgram, CounterProgram, AssignedCounterProgram}
    \cup {ShadowSource(outer, inner) : outer \in Literals, inner \in Literals}

Sources ==
    Programs \cup Fragments \cup {a \o <<"\n">> \o b : a \in Fragments, b \in Fragments}
    \cup {RecoverySource(m) : m \in Malformed \cup Cascading}
    \cup {ForSource(c) : c \in Conditions} \cup {WhileSource(c) : c \in Conditions}
    \cup {ForSource(OmittedCondition)}
    \cup {FunctionSource(s) : s \in Returning \cup {ReturnNothing, <<>>}}
    \cup {AritySource(a.text) : a \in ArgumentLists}
    \cup {CallSource(c.text) : c \in Callees}
    \cup BinarySources
    \cup {LogicalSource(l.text, o) : l \in LeftOperands, o \in LogicalOperators}
    \cup {UnrecognizedSource(c) : c \in Unrecognized} \cup {UnterminatedSource}
    \cup {CommentSource(c) : c \in Unrecognized}
    \cup PrecedenceSources
    \cup {TargetSource(t.text) : t \in Targets}

-----------------------------------------------------------------------------
(* Spec: Lox::run on one source.  Scanner::scan_tokens, Parser::parse and    *)
(* Interpreter::new are one step each, and every iteration of the for loop   *)
(* of Interpreter::interpret is one step.  A panic ends the process          *)
(* (pc = "panicked"); a statement that outruns its budget of MaxSteps ends    *)
(* the model's run (pc = "diverged").                                        *)

Init ==
    /\ pc = "run"
    /\ source \in Sources
    /\ tokens = <<>> /\ stmts = <<>> /\ idx = 0
    /\ environments = <<>> /\ env = 0 /\ globals = 0
    /\ output = <<>> /\ reported = <<>> /\ trace = <<>>
    /\ hadError = FALSE /\ hadRuntimeError = FALSE
    /\ last = NoOp

(* let mut scanner = Scanner::new(source); let tokens = scanner.scan_tokens().clone(); *)
Scanned(S) ==
    /\ tokens' = (IF S.panic THEN tokens ELSE S.tokens)
    /\ reported' = reported \o S.errs
    /\ hadError' = (hadError \/ S.errs # <<>>)
    /\ pc' = (IF S.panic THEN "panicked" ELSE "scanned")

Scan ==
    /\ pc = "run"
    /\ Scanned(scan_tokens(Scanner_new(source)))
    /\ UNCHANGED <<source, stmts, idx, environments, env, globals, output,
                   hadRuntimeError, trace, last>>

(* let mut parser = Parser::new(tokens); let stmts = match parser.parse() { .. }; *)
Parsed(r) ==
    /\ reported' = reported \o r.P.errs
    /\ hadError' = (hadError \/ r.P.errs # <<>>)
    /\ stmts' = (IF r.kind = "ok" THEN r.node ELSE <<>>)
    /\ pc' = (IF r.P.panic THEN "panicked"
              ELSE IF r.kind = "ok" THEN "parsed" ELSE "done")

Parse ==
    /\ pc = "scanned"
    /\ Parsed(parse(Parser_new(tokens)))
    /\ UNCHANGED <<source, tokens, idx, environments, env, globals, output,
                   hadRuntimeError, trace, last>>

(* let mut interpreter = Interpreter::new(); *)
NewInterpreter ==
    /\ pc = "parsed"
    /\ environments' = Interpreter_new_envs
    /\ env' = 1
    /\ globals' = 1
    /\ idx' = 1
    /\ pc' = "interpret"
    /\ UNCHANGED <<source, tokens, stmts, output, reported, hadError, hadRuntimeError,
                   trace, last>>

(* lib.rs: Lox::runtime_error *)
runtime_error(e) == [runtime |-> e.message, line |-> e.token.line]

StmtEvent(i, res) == [ev |-> "stmt", idx |-> i, kind |-> ResKind(res), res |-> res]

(* match self.execute(&stmt) { Ok(_) => (), Err(e) => Lox::runtime_error(e) } *)
Executed(r) ==
    /\ environments' = r.I.envs
    /\ env' = r.I.env
    /\ output' = r.I.out
    /\ trace' = Append(r.I.trace, StmtEvent(idx, r.res))
    /\ reported' = (IF r.res.kind = "err"
                    THEN Append(r.I.err, runtime_error(r.res)) ELSE r.I.err)
    /\ hadRuntimeError' = (hadRuntimeError \/ r.res.kind = "err")
    /\ pc' = (CASE r.res.kind = "panic" -> "panicked"
                [] r.res.kind = "diverge" -> "diverged"
                [] OTHER -> "interpret")

(* One iteration of the for loop of Interpreter::interpret *)
Interpret ==
    /\ pc = "interpret"
    /\ idx <= Len(stmts)
    /\ Executed(execute(Interp, stmts[idx]))
    /\ idx' = idx + 1
    /\ UNCHANGED <<source, tokens, stmts, globals, hadError, last>>

(* The for loop of interpret is over and Lox::run returns Ok(()) *)
Return ==
    /\ pc = "interpret"
    /\ idx > Len(stmts)
    /\ pc' = "done"
    /\ UNCHANGED <<source, tokens, stmts, idx, environments, env, globals, output,
                   reported, hadError, hadRuntimeError, trace, last>>

Next == Scan \/ Parse \/ NewInterpreter \/ Interpret \/ Return

Spec == Init /\ [][Next]_vars

-----------------------------------------------------------------------------
(* Claims about calls, blocks and Lox::run, over the history in trace *)

Events(ev) == {i \in DOMAIN trace : trace[i].ev = ev}

(* C5: every call of a user function runs its body in a new scope whose      *)
(* enclosing scope is the closure of the function, never the caller's        *)
(* current scope: a free variable of the body that both the closure chain    *)
(* and the caller's scope define reads the binding of the closure chain.     *)
C5_CallsEncloseClosure ==
    /\ \A i \in Events("call") :
          /\ trace[i].enclosing = trace[i].closure
          /\ trace[i].scope > trace[i].heap
    /\ pc = "done" /\ source = GlobalClosureProgram => output = <<"global">>
    /\ pc = "done" /\ source = BlockClosureProgram => output = <<"outer">>

(* A call from a scope that is not the closure, which defines x as well *)
C5_Witness ==
    /\ pc = "done"
    /\ source = BlockClosureProgram
    /\ \E i \in Events("call") :
          /\ trace[i].caller # trace[i].closure
          /\ "x" \in DOMAIN environments[trace[i].caller].values
          /\ "x" \in DOMAIN environments[trace[i].closure].values
          /\ trace[i].enclosing = trace[i].closure
    /\ output = <<"outer">>

(* C6: closures capture by reference: successive calls of the function a     *)
(* counter-returning function returned yield 1 then 2, and the function of a *)
(* second call of the outer function counts on its own, from 1.              *)
C6_CounterIncreasing ==
    pc = "done" /\ source = CounterProgram => output = <<"1", "2", "1">>

(* What the counter program does: both return statements are syntax errors,  *)
(* makeCounter() is nil, and the three calls of nil fail.                    *)
C6_Witness ==
    /\ pc = "done"
    /\ source = CounterProgram
    /\ output = <<>>
    /\ hadError /\ hadRuntimeError
    /\ \E i \in DOMAIN reported :
          reported[i] = [line |-> 3, where |-> " at 'return'", message |-> "Expect expression."]
    /\ Cardinality(Events("stmt")) = 6

(* C7: a var declaration in a nested block binds the name in the scope of    *)
(* the block: inside the block the name reads the inner value, and after the *)
(* block the outer binding still has its value (2 then 1 is printed for      *)
(* var a = 1; { var a = 2; print a; } print a;).                             *)
C7_Shadowing ==
    \A outer \in Literals, inner \in Literals :
        pc = "done" /\ source = ShadowSource(outer, inner) =>
            /\ output = <<inner, outer>>
            /\ Len(environments) = 2
            /\ fmt(environments[1].values["a"]) = outer
            /\ fmt(environments[2].values["a"]) = inner

C7_Witness ==
    /\ pc = "done"
    /\ source = ShadowSource("1", "2")
    /\ output = <<"2", "1">>
    /\ \E i \in Events("block") : trace[i].scope = 2 /\ trace[i].prev = 1

(* C8: a runtime error is fatal to the run: once a top-level statement has   *)
(* raised a runtime error, interpret executes no later top-level statement.  *)
C8_RuntimeErrorFatal ==
    \A i \in Events("stmt") : \A j \in Events("stmt") :
        trace[i].kind = "err" => j <= i

(*   print x; *)
(*   print 1; *)
C8_FailingInput ==
    <<"p", "r", "i", "n", "t", " ", "x", ";", "\n", "p", "r", "i", "n", "t",
      " ", "1", ";">>

(* The statement after the failing one is executed and prints *)
C8_Witness ==
    /\ pc = "done"
    /\ source = C8_FailingInput
    /\ hadRuntimeError
    /\ reported = <<[runtime |-> "Undefined variable 'x'.", line |-> 1]>>
    /\ output = <<"1">>

(* C9: a runtime error of a statement of a block or of a function body is    *)
(* never swallowed: no later statement of the block is executed, and the     *)
(* block results in that runtime error.                                      *)
C9_BlockErrorNotSwallowed ==
    \A i \in Events("block") : \A s \in DOMAIN trace[i].kinds :
        trace[i].kinds[s] = "err" => s = Len(trace[i].kinds) /\ trace[i].final = "err"

(*   { print x; print 3; } *)
(*   print 1; *)
C9_FailingInput ==
    <<"{", " ", "p", "r", "i", "n", "t", " ", "x", ";", " ", "p", "r", "i",
      "n", "t", " ", "3", ";", " ", "}", "\n", "p", "r", "i", "n", "t", " ",
      "1", ";">>

(* The block goes on after print x has failed, and results in Ok: nothing is *)
(* reported.                                                                 *)
C9_Witness ==
    /\ pc = "done"
    /\ source = C9_FailingInput
    /\ \E i \in Events("block") : trace[i].kinds = <<"err", "ok">> /\ trace[i].final = "ok"
    /\ output = <<"3", "1">>
    /\ reported = <<>>
    /\ ~hadRuntimeError

(* C10: all-or-nothing: when scanning or parsing has reported an error,      *)
(* Lox::run executes none of the statements.                                 *)
C10_AllOrNothing == hadError => Events("stmt") = {} /\ output = <<>>

(*   print ; *)
(*   print 1; *)
C10_FailingInput ==
    <<"p", "r", "i", "n", "t", " ", ";", "\n", "p", "r", "i", "n", "t", " ",
      "1", ";">>

(* A syntax error is reported and the program is run all the same *)
C10_Witness ==
    /\ pc = "done"
    /\ source = C10_FailingInput
    /\ hadError
    /\ reported = <<[line |-> 1, where |-> " at ';'", message |-> "Expect expression."]>>
    /\ output = <<"1">>

-----------------------------------------------------------------------------
(* Claims about the parser's error recovery *)

(* C11: for a source made of one malformed statement followed by two         *)
(* well-formed statements, parse reports exactly one syntax error and its    *)
(* result holds both well-formed statements, each as a statement of its own  *)
(* with the right structure: synchronize discards no token of a following    *)
(* well-formed statement.                                                    *)
C11_RecoveryKeepsFollowing ==
    \A m \in Malformed :
        pc = "parsed" /\ source = RecoverySource(m) =>
            /\ Len(reported) = 1
            /\ Len(stmts) = 3
            /\ stmts[2] = [k |-> "Print", expr |-> Literal(Number(2))]
            /\ stmts[3] = Var("y", Literal(Number(3)))

C11_FailingInput == RecoverySource(MissingSemicolon)

(* The error is reported at the `print` that follows the malformed statement, *)
(* synchronize() advances over it, and `print 2;` is not in the result.       *)
C11_Witness ==
    /\ pc = "parsed"
    /\ source = C11_FailingInput
    /\ reported = <<[line |-> 1, where |-> " at 'print'",
                     message |-> "Expect ';' after value."]>>
    /\ stmts = <<[k |-> "Expr", expr |-> Literal(Nil)], Var("y", Literal(Number(3)))>>

(* Recovery as claimed, for the malformed statements that end with their     *)
(* semicolon.                                                                *)
C11_WitnessRecovered ==
    /\ pc = "parsed"
    /\ source \in {RecoverySource(m) : m \in Malformed \ {MissingSemicolon}}
    /\ Len(reported) = 1
    /\ Len(stmts) = 3
    /\ stmts[2] = [k |-> "Print", expr |-> Literal(Number(2))]
    /\ stmts[3] = Var("y", Literal(Number(3)))

-----------------------------------------------------------------------------
(* Claims about the for statement *)

(* The statements Lox::run gets from a source: scan_tokens, then parse *)
ParseOf(source_) == parse(Parser_new(scan_tokens(Scanner_new(source_)).tokens)).node

(* C12: a for statement behaves as the block                                 *)
(* { initializer; while (condition) { body; increment; } }: it is parsed     *)
(* into the statements of that block, whatever condition is written, and     *)
(* `for (var i = 0; i < 3; i = i + 1) print i;` prints 0, 1, 2 and nothing   *)
(* else and leaves no variable i behind.                                     *)
C12_ForBehavesAsWhile ==
    /\ \A c \in Conditions :
           pc \in {"parsed", "interpret", "done", "diverged"} /\ source = ForSource(c)
               => stmts = ParseOf(WhileSource(c))
    /\ pc = "done" /\ source = ForSource(<<"i", " ", "<", " ", "3">>)
           => /\ output = <<"0", "1", "2">>
              /\ reported = <<>>
              /\ env = globals
              /\ ~contains_key(environments[globals].values, "i")

C12_FailingInput == ForSource(<<"n", "i", "l">>)

(* The written condition nil is falsey, and yet the body is executed. *)
C12_Witness ==
    /\ source = C12_FailingInput
    /\ stmts # ParseOf(WhileSource(<<"n", "i", "l">>))
    /\ Len(output) > 0

(* The example of the claim *)
C12_WitnessExample ==
    /\ pc = "done"
    /\ source = ForSource(<<"i", " ", "<", " ", "3">>)
    /\ stmts = ParseOf(WhileSource(<<"i", " ", "<", " ", "3">>))
    /\ output = <<"0", "1", "2">>
    /\ ~contains_key(environments[globals].values, "i")

(* The condition of the while loop a for statement with an initializer is  *)
(* parsed into                                                               *)
LoopCondition == stmts[1].stmts[2].condition

(* The expression a text is parsed into *)
ExpressionOf(text) == ParseOf(text \o <<";">>)[1].expr

(* C30: the condition of the loop is the constant true only when the for    *)
(* statement has no condition clause; a condition that is written, nil       *)
(* included, is the condition of the loop, so that with a written condition  *)
(* that is falsey at first the body is not executed and the loop ends.       *)
C30_WrittenConditionKept ==
    pc \in {"parsed", "interpret", "done", "diverged"} =>
        /\ source = ForSource(OmittedCondition) => LoopCondition = Literal(Bool(TRUE))
        /\ \A c \in Conditions :
               source = ForSource(c) =>
                   /\ LoopCondition = ExpressionOf(c)
                   /\ c # <<"i", " ", "<", " ", "3">> => output = <<>> /\ pc # "diverged"

C30_FailingInput == ForSource(<<"n", "i", "l">>)

(* The condition written nil has become true and the loop outruns its budget *)
C30_Witness ==
    /\ pc = "diverged"
    /\ source = C30_FailingInput
    /\ LoopCondition = Literal(Bool(TRUE))
    /\ LoopCondition # ExpressionOf(<<"n", "i", "l">>)
    /\ output[1] = "0"

(* The condition written false is kept: the body is not executed *)
C30_WitnessKept ==
    /\ pc = "done"
    /\ source = ForSource(<<"f", "a", "l", "s", "e">>)
    /\ LoopCondition = Literal(Bool(FALSE))
    /\ output = <<>>

(* Without a condition clause the condition is true *)
C30_WitnessOmitted ==
    /\ pc = "diverged"
    /\ source = ForSource(OmittedCondition)
    /\ LoopCondition = Literal(Bool(TRUE))

-----------------------------------------------------------------------------
(* Claims about return *)

(* C13: a return statement ends the call at once, at any depth of blocks, if *)
(* branches and while loops in the body: no later statement of the body is   *)
(* executed, the scopes entered during the call are left, and the call       *)
(* yields the returned value, nil when return has no expression; a body that *)
(* finishes without return makes the call yield nil.                         *)
C13_ReturnEndsCall ==
    /\ \A s \in Returning :
           pc \in {"done", "diverged", "panicked"} /\ source = FunctionSource(s)
               => pc = "done" /\ output = <<"7">> /\ env = globals
    /\ pc \in {"done", "diverged", "panicked"} /\ source = FunctionSource(ReturnNothing)
           => pc = "done" /\ output = <<"nil">> /\ env = globals
    /\ pc \in {"done", "diverged", "panicked"} /\ source = FunctionSource(<<>>)
           => pc = "done" /\ output = <<"2", "nil">> /\ env = globals

C13_FailingInput == FunctionSource(<<"r", "e", "t", "u", "r", "n", " ", "7", ";">>)

(* The statement after `return 7;` is executed and the call yields nil. *)
C13_Witness ==
    /\ pc = "done"
    /\ source = C13_FailingInput
    /\ output = <<"2", "nil">>
    /\ \E i \in Events("call") : TRUE

(* A body without return: the call yields nil. *)
C13_WitnessNoReturn ==
    /\ pc = "done"
    /\ source = FunctionSource(<<>>)
    /\ output = <<"2", "nil">>
    /\ env = globals

(* C14: the statement grammar covers return: `return ;` and `return expr ;`  *)
(* in a function body are parsed with no error, into a Return node.          *)
C14_ReturnParses ==
    \A s \in {<<"r", "e", "t", "u", "r", "n", " ", "7", ";">>, ReturnNothing} :
        pc = "parsed" /\ source = FunctionSource(s) =>
            /\ reported = <<>>
            /\ stmts[1].k = "Function"
            /\ stmts[1].body[1].k = "Return"

C14_FailingInput == FunctionSource(ReturnNothing)

(* `return` is reported as the start of an expression statement, and the     *)
(* statement recovery leaves in the body is the nil placeholder.             *)
C14_Witness ==
    /\ pc = "parsed"
    /\ source = C14_FailingInput
    /\ reported = <<[line |-> 1, where |-> " at 'return'",
                     message |-> "Expect expression."]>>
    /\ stmts[1].k = "Function"
    /\ stmts[1].body[1] = [k |-> "Expr", expr |-> Literal(Nil)]

-----------------------------------------------------------------------------
(* Claims about calls and operators *)

(* C15: a call whose number of arguments differs from the number of          *)
(* parameters raises a runtime error that carries the closing parenthesis of *)
(* the call, without executing the body or binding a parameter; with the     *)
(* same number, the i-th parameter is bound to the i-th argument in the new  *)
(* scope of the call.                                                        *)
C15_ArityChecked ==
    \A a \in ArgumentLists :
        pc = "done" /\ source = AritySource(a.text) =>
            IF a.count = 2
            THEN /\ reported = <<>>
                 /\ output = <<"1", "2">>
                 /\ \E i \in Events("call") :
                        /\ trace[i].scope = Len(environments)
                        /\ trace[i].scope # globals
                        /\ environments[trace[i].scope].values
                               = [n \in {"a", "b"} |-> IF n = "a" THEN Number(1) ELSE Number(2)]
            ELSE /\ output = <<>>
                 /\ Events("call") = {}
                 /\ Len(environments) = 1
                 /\ \E i \in Events("stmt") :
                        /\ trace[i].idx = 2
                        /\ trace[i].res
                               = RuntimeError(Token("RightParen", ")", NotExist, 3),
                                              "Expected 2 arguments but got "
                                              \o ToString(a.count) \o ".")
                 /\ reported = <<[runtime |-> "Expected 2 arguments but got "
                                              \o ToString(a.count) \o ".",
                                  line |-> 3]>>

(* One argument too many: the error, and no call. *)
C15_Witness ==
    /\ pc = "done"
    /\ source = AritySource(<<"1", ",", " ", "2", ",", " ", "3">>)
    /\ reported = <<[runtime |-> "Expected 2 arguments but got 3.", line |-> 3]>>
    /\ Events("call") = {}

(* As many arguments as parameters: a is 1 and b is 2 in the call's scope. *)
C15_WitnessBound ==
    /\ pc = "done"
    /\ source = AritySource(<<"1", ",", " ", "2">>)
    /\ output = <<"1", "2">>
    /\ \E i \in Events("call") : environments[trace[i].scope].values["b"] = Number(2)

(* C16: every value that is a LoxCallable can be called, the native clock    *)
(* (arity 0) included; "Can only call functions and classes." is raised only *)
(* by a call of a value that is not callable.                                *)
C16_CallablesCalled ==
    \A c \in Callees :
        pc = "done" /\ source = CallSource(c.text) =>
            IF c.callable
            THEN reported = <<>> /\ Len(output) >= 1
            ELSE /\ output = <<>>
                 /\ reported = <<[runtime |-> "Can only call functions and classes.",
                                  line |-> 2]>>

C16_FailingInput == CallSource(<<"c", "l", "o", "c", "k">>)

(* The call of clock is refused as a call of a value that is not callable. *)
C16_Witness ==
    /\ pc = "done"
    /\ source = C16_FailingInput
    /\ output = <<>>
    /\ reported = <<[runtime |-> "Can only call functions and classes.", line |-> 2]>>

(* The user function is called, and a string is not. *)
C16_WitnessFunction ==
    /\ pc = "done"
    /\ source = CallSource(<<"f">>)
    /\ output = <<"1", "nil">>
    /\ reported = <<>>

(* The result of the third statement, the print of the binary expression *)
PrintResult(res) == \E i \in Events("stmt") : trace[i].idx = 3 /\ trace[i].res = res

(* C17: -, *, /, >, >=, <, <= yield a result only for two Numbers and + only *)
(* for two Numbers or two Strings ("hello " + "world" is "hello world");     *)
(* every other pair of operands raises a runtime error that carries the      *)
(* operator token.                                                           *)
C17_OperandsChecked ==
    \A l \in Operands, o \in NumberOperators \cup {PlusOperator}, r \in Operands :
        pc \in {"done", "panicked"} /\ source = BinarySource(l.text, o.text, r.text) =>
            /\ pc = "done"
            /\ IF \/ l.kind = "Number" /\ r.kind = "Number"
                  \/ o = PlusOperator /\ l.kind = "String" /\ r.kind = "String"
               THEN /\ reported = <<>>
                    /\ Len(output) = 1
                    /\ \E i \in Events("stmt") : trace[i].idx = 3 /\ trace[i].kind = "ok"
                    /\ l.kind = "String" /\ l # r => output \in {<<"hello world">>, <<"worldhello ">>}
                    /\ o = PlusOperator /\ l.kind = "Number" /\ l # r => output = <<"3">>
               ELSE /\ output = <<>>
                    /\ PrintResult(RuntimeError(
                           Token(o.type_, o.lexeme, NotExist, 3),
                           IF o = PlusOperator
                           THEN "Operands must be two numbers or two strings."
                           ELSE "Operands must be numbers."))

(* "hello " + "world" *)
C17_Witness ==
    /\ pc = "done"
    /\ source = BinarySource(<<"\"", "h", "e", "l", "l", "o", " ", "\"">>, <<"+">>,
                             <<"\"", "w", "o", "r", "l", "d", "\"">>)
    /\ output = <<"hello world">>

(* 1 < nil *)
C17_WitnessError ==
    /\ pc = "done"
    /\ source = BinarySource(<<"1">>, <<"<">>, <<"n", "i", "l">>)
    /\ output = <<>>
    /\ reported = <<[runtime |-> "Operands must be numbers.", line |-> 3]>>

(* C18: == and != on any pair of values, two functions and a function with  *)
(* itself included, complete with a Boolean and never an error, and two      *)
(* values of unlike kinds are unequal.                                       *)
C18_EqualityTotal ==
    \A l \in Operands \cup Callables, o \in EqualityOperators, r \in Operands \cup Callables :
        pc \in {"done", "panicked", "diverged"}
        /\ source = BinarySource(l.text, o.text, r.text) =>
            /\ pc = "done"
            /\ reported = <<>>
            /\ output \in {<<"true">>, <<"false">>}
            /\ l.kind # r.kind =>
                   output = <<IF o.type_ = "EqualEqual" THEN "false" ELSE "true">>
            /\ l = r => output = <<IF o.type_ = "EqualEqual" THEN "true" ELSE "false">>

C18_FailingInput == BinarySource(<<"f">>, <<"=", "=">>, <<"f">>)

(* f == f ends the process *)
C18_Witness ==
    /\ pc = "panicked"
    /\ source = C18_FailingInput
    /\ output = <<>>

(* A function and another one, and a function and nil, are unequal *)
C18_WitnessUnequal ==
    /\ pc = "done"
    /\ source \in {BinarySource(<<"f">>, <<"=", "=">>, <<"g">>),
                   BinarySource(<<"f">>, <<"=", "=">>, <<"n", "i", "l">>)}
    /\ output = <<"false">>

(* C19: `a and b` is the value of a, with b not evaluated, when a is falsey,  *)
(* and the value of b otherwise; `a or b` is the value of a, with b not       *)
(* evaluated, when a is truthy, and the value of b otherwise; the value is    *)
(* the operand's own, not a Boolean made of it.                               *)
C19_ShortCircuit ==
    \A l \in LeftOperands, o \in LogicalOperators :
        pc \in {"done", "panicked"} /\ source = LogicalSource(l.text, o) =>
            /\ pc = "done"
            /\ reported = <<>>
            /\ output = IF l.truthy = (o = <<"o", "r">>)
                        THEN <<l.shown, "0">>
                        ELSE <<"5", "5">>

(* 0 or (x = 5) is 0 and x is still 0; "s" and (x = 5) is 5 and x is 5 *)
C19_Witness ==
    /\ pc = "done"
    /\ \/ source = LogicalSource(<<"0">>, <<"o", "r">>) /\ output = <<"0", "0">>
       \/ source = LogicalSource(<<"\"", "s", "\"">>, <<"a", "n", "d">>) /\ output = <<"5", "5">>

(* nil and (x = 5) is nil and x is still 0 *)
C19_WitnessAnd ==
    /\ pc = "done"
    /\ source = LogicalSource(<<"n", "i", "l">>, <<"a", "n", "d">>)
    /\ output = <<"nil", "0">>

------------------------------------------------------------------------------
(* Claims about the scanner *)

TokenTypes == [i \in DOMAIN tokens |-> tokens[i].type_]

(* C20: scan_tokens returns for every source, an unrecognized character or   *)
(* an unterminated string included: each lexical error is reported, the      *)
(* lexemes after an unrecognized character are tokens, and the tokens hold   *)
(* one Eof, the last of them.                                                *)
C20_ScanningNeverAborts ==
    pc # "run" =>
        /\ tokens # <<>>
        /\ \A i \in DOMAIN tokens : tokens[i].type_ = "Eof" <=> i = Len(tokens)
        /\ \A c \in Unrecognized :
               source = UnrecognizedSource(c) =>
                   /\ reported # <<>>
                   /\ reported[1] = Lox_error(1, "Unexpected character.")
                   /\ TokenTypes = <<"Var", "Identifier", "Equal", "Number", "Semicolon", "Eof">>
        /\ source = UnterminatedSource =>
               /\ reported # <<>>
               /\ reported[1] = Lox_error(1, "Unterminated string.")
               /\ TokenTypes = <<"Print", "Number", "Semicolon", "Eof">>

C20_FailingInput == UnrecognizedSource(<<Lead, Continuation>>)

(* The scanner reports U+00E9 and then stops the process: no token is        *)
(* returned.                                                                 *)
C20_Witness ==
    /\ pc = "panicked"
    /\ source = C20_FailingInput
    /\ tokens = <<>>
    /\ reported = <<Lox_error(1, "Unexpected character.")>>

(* @ is reported and the lexemes after it are tokens *)
C20_WitnessRecognized ==
    /\ pc = "scanned"
    /\ source = UnrecognizedSource(<<"@">>)
    /\ reported = <<Lox_error(1, "Unexpected character.")>>
    /\ TokenTypes = <<"Var", "Identifier", "Equal", "Number", "Semicolon", "Eof">>

------------------------------------------------------------------------------
(* Claims about the parser's expressions *)

(* The level of an infix operator in the ladder of the grammar *)
Level(type_) ==
    CASE type_ = "Or" -> 1
      [] type_ = "And" -> 2
      [] type_ \in {"BangEqual", "EqualEqual"} -> 3
      [] type_ \in {"Greater", "GreaterEqual", "Less", "LessEqual"} -> 4
      [] type_ \in {"Minus", "Plus"} -> 5
      [] type_ \in {"Slash", "Star"} -> 6

VariableOf(token) == [k |-> "Variable", name |-> token]

InfixOf(left, op, right) ==
    [k |-> IF op.type_ \in {"Or", "And"} THEN "Logical" ELSE "Binary",
     left |-> left, op |-> op, right |-> right]

PrefixOf(op, right) == [k |-> "Unary", op |-> op, right |-> right]

ExprStmts(e) == <<[k |-> "Expr", expr |-> e]>>

(* C21: the tree follows the ladder assignment < or < and < equality <       *)
(* comparison < term < factor < unary < call < primary: the operator of the  *)
(* higher level binds tighter, infix operators of one level group to the     *)
(* left, prefix operators and assignment group to the right.                 *)
C21_PrecedenceLadder ==
    pc \notin {"run", "scanned"} =>
        /\ \A o1 \in Infix, o2 \in Infix :
               source = InfixSource(o1, o2) =>
                   stmts = ExprStmts(
                       IF Level(tokens[4].type_) > Level(tokens[2].type_)
                       THEN InfixOf(VariableOf(tokens[1]), tokens[2],
                                    InfixOf(VariableOf(tokens[3]), tokens[4],
                                            VariableOf(tokens[5])))
                       ELSE InfixOf(InfixOf(VariableOf(tokens[1]), tokens[2],
                                            VariableOf(tokens[3])),
                                    tokens[4], VariableOf(tokens[5])))
        /\ \A u \in Prefix, o \in Infix :
               source = PrefixSource(u, o) =>
                   stmts = ExprStmts(InfixOf(PrefixOf(tokens[1], VariableOf(tokens[2])),
                                             tokens[3], VariableOf(tokens[4])))
        /\ source = AssignTwiceSource =>
               stmts = ExprStmts([k |-> "Assign", name |-> tokens[1],
                                  value |-> [k |-> "Assign", name |-> tokens[3],
                                             value |-> VariableOf(tokens[5])]])
        /\ source = PrefixTwiceSource =>
               stmts = ExprStmts(PrefixOf(tokens[1], PrefixOf(tokens[2], VariableOf(tokens[3]))))
        /\ source = PrefixCallSource =>
               stmts = ExprStmts(PrefixOf(tokens[1],
                                          [k |-> "Call", callee |-> VariableOf(tokens[2]),
                                           paren |-> tokens[4], arguments |-> <<>>]))
        /\ source = GroupingSource =>
               stmts = ExprStmts(InfixOf(
                   [k |-> "Grouping",
                    expression |-> InfixOf(
                        Literal(Number(5)), tokens[3],
                        [k |-> "Grouping",
                         expression |-> InfixOf(Literal(Number(3)), tokens[6],
                                                Literal(Number(1)))])],
                   tokens[10],
                   PrefixOf(tokens[11], Literal(Number(1)))))

(* a - b - c is (a - b) - c, and a + b * c is a + (b * c) *)
C21_Witness ==
    /\ pc = "parsed"
    /\ \/ /\ source = InfixSource(<<"-">>, <<"-">>)
          /\ stmts[1].expr.left.k = "Binary" /\ stmts[1].expr.right.k = "Variable"
       \/ /\ source = InfixSource(<<"+">>, <<"*">>)
          /\ stmts[1].expr.left.k = "Variable" /\ stmts[1].expr.right.k = "Binary"

(* (5 - (3 - 1)) + -1 *)
C21_WitnessExample ==
    /\ pc = "parsed"
    /\ source = GroupingSource
    /\ stmts[1].expr.op.type_ = "Plus"
    /\ stmts[1].expr.left.k = "Grouping"
    /\ stmts[1].expr.right.k = "Unary"

(* The `=` of the source *)
EqualToken == tokens[CHOOSE i \in DOMAIN tokens : tokens[i].type_ = "Equal"]

(* C22: an assignment to anything but a bare variable is the parse error     *)
(* "Invalid assignment target." at the `=` and gives no Assign node; an      *)
(* assignment to a bare variable gives the Assign node of that variable.     *)
C22_AssignmentTarget ==
    \A t \in Targets :
        pc \notin {"run", "scanned"} /\ source = TargetSource(t.text) =>
            IF t.variable
            THEN /\ stmts = ExprStmts([k |-> "Assign", name |-> tokens[1],
                                       value |-> Literal(Number(2))])
                 /\ tokens[1].type_ = "Identifier"
                 /\ pc = "parsed" => reported = <<>>
            ELSE /\ stmts = ExprStmts(Literal(Nil))
                 /\ reported = <<token_error(EqualToken, "Invalid assignment target.")>>
                 /\ hadError

(* (a) = 2 and f() = 2 are reported at the `=` *)
C22_Witness ==
    /\ pc = "parsed"
    /\ source \in {TargetSource(<<"(", "a", ")">>), TargetSource(<<"f", "(", ")">>)}
    /\ reported = <<[line |-> 1, where |-> " at '='", message |-> "Invalid assignment target."]>>

(* xs = 2 *)
C22_WitnessVariable ==
    /\ pc = "parsed"
    /\ source = TargetSource(<<"x", "s">>)
    /\ stmts[1].expr.k = "Assign"
    /\ stmts[1].expr.name.lexeme = "xs"

------------------------------------------------------------------------------
(* Claims about the scope of blocks *)

(* The block has returned: with a value, a runtime error or a return signal *)
Returned(i) == trace[i].final \in {"ok", "err", "return"}

(* C23: whenever exec_block returns, normally, with a runtime error or with  *)
(* a return signal, self.env is the environment it was when exec_block was   *)
(* entered; so it is the caller's after the block of a call, and the globals *)
(* after every top-level statement.                                          *)
C23_BlockRestoresScope ==
    /\ \A i \in Events("block") : Returned(i) => trace[i].after = trace[i].prev
    /\ \A i \in Events("call"), j \in Events("block") :
           trace[j].scope = trace[i].scope /\ Returned(j) =>
               trace[j].after = trace[i].caller
    /\ pc \in {"interpret", "done"} => env = globals

(* A block left by a runtime error, in a scope of its own *)
C23_Witness ==
    /\ pc = "interpret"
    /\ env = globals
    /\ \E i \in Events("block") :
           /\ trace[i].final = "err"
           /\ trace[i].scope # trace[i].prev
           /\ trace[i].after = trace[i].prev

(* The block of a call made from a block: the caller's scope is current again *)
C23_WitnessCall ==
    \E i \in Events("call"), j \in Events("block") :
        /\ trace[j].scope = trace[i].scope
        /\ Returned(j)
        /\ trace[i].caller # globals
        /\ trace[j].after = trace[i].caller

------------------------------------------------------------------------------
(* Claims about the errors the parser reports *)

(* C24: for a malformed declaration or statement the parser reports one      *)
(* syntax error, and no second one before the next declaration is parsed.    *)
C24_OneErrorPerStatement ==
    \A m \in Malformed \cup Cascading :
        pc = "parsed" /\ source = RecoverySource(m) =>
            /\ Len(reported) = 1
            /\ hadError

C24_FailingInput == RecoverySource(<<"p", "r", "i", "n", "t", " ", "(", ";">>)

(* print (; is reported twice, at the same `;` *)
C24_Witness ==
    /\ pc = "parsed"
    /\ source = C24_FailingInput
    /\ reported = <<[line |-> 1, where |-> " at ';'", message |-> "Expect expression."],
                    [line |-> 1, where |-> " at ';'",
                     message |-> "Expect ')' after expression."]>>

(* print ; is reported once *)
C24_WitnessOnce ==
    /\ pc = "parsed"
    /\ source = RecoverySource(<<"p", "r", "i", "n", "t", " ", ";">>)
    /\ reported = <<[line |-> 1, where |-> " at ';'", message |-> "Expect expression."]>>

------------------------------------------------------------------------------
(* Interpreter::interpret on statements that hold a Stmt::Return.  The parser *)
(* builds no Stmt::Return, so the statements are given as trees: a function  *)
(* f whose body is a return statement, bare or inside a block, an if or a    *)
(* while, and a statement that calls f.                                       *)

SymbolToken(type_, lexeme) == Token(type_, lexeme, NotExist, 1)

CallOf(callee) ==
    [k |-> "Call", callee |-> callee, paren |-> SymbolToken("RightParen", ")"),
     arguments |-> <<>>]

(* Values of a return statement whose evaluation raises a runtime error, with *)
(* the error:   -"s"     nil + 1     x     "s"()                              *)
FailingValues ==
    {[value |-> [k |-> "Unary", op |-> SymbolToken("Minus", "-"),
                 right |-> Literal(String("s"))],
      error |-> RuntimeError(SymbolToken("Minus", "-"), "Operand must be a number.")],
     [value |-> [k |-> "Binary", left |-> Literal(Nil), op |-> SymbolToken("Plus", "+"),
                 right |-> Literal(Number(1))],
      error |-> RuntimeError(SymbolToken("Plus", "+"),
                             "Operands must be two numbers or two strings.")],
     [value |-> Variable("x"),
      error |-> RuntimeError(Identifier("x"), UndefinedMessage("x"))],
     [value |-> CallOf(Literal(String("s"))),
      error |-> RuntimeError(SymbolToken("RightParen", ")"),
                             "Can only call functions and classes.")]}

(* Values that evaluate:   7     "s"     1 + 2     nil *)
ReturnedValues ==
    {[value |-> Literal(Number(7)), shown |-> "7"],
     [value |-> Literal(String("s")), shown |-> "s"],
     [value |-> [k |-> "Binary", left |-> Literal(Number(1)),
                 op |-> SymbolToken("Plus", "+"), right |-> Literal(Number(2))],
      shown |-> "3"],
     [value |-> Literal(Nil), shown |-> "nil"]}

ReturnStmt(value) ==
    [k |-> "Return", keyword |-> Token("Return", "return", String("return"), 1),
     value |-> value]

ReturnContexts == {"bare", "block", "if", "while"}

(*   return v;     { return v; }     if (true) return v;     while (true) { return v; } *)
InContext(context, stmt) ==
    CASE context = "bare" -> stmt
      [] context = "block" -> [k |-> "Block", stmts |-> <<stmt>>]
      [] context = "if" -> [k |-> "If", condition |-> Literal(Bool(TRUE)),
                            then_branch |-> stmt, else_branch |-> <<>>]
      [] context = "while" -> [k |-> "While", condition |-> Literal(Bool(TRUE)),
                               body |-> [k |-> "Block", stmts |-> <<stmt>>]]

Callers == {"print", "expression", "var"}

(*   print f();     f();     var r = f(); *)
CallerOf(caller) ==
    CASE caller = "print" -> [k |-> "Print", expr |-> CallOf(Variable("f"))]
      [] caller = "expression" -> [k |-> "Expr", expr |-> CallOf(Variable("f"))]
      [] caller = "var" -> Var("r", CallOf(Variable("f")))

(*   fun f() { <the return statement in its context> }   <the caller> *)
ReturnProgram(value, context, caller) ==
    <<FunctionDecl(Identifier("f"), <<>>, <<InContext(context, ReturnStmt(value))>>),
      CallerOf(caller)>>

ExecInit ==
    /\ pc = "parsed"
    /\ source = <<>> /\ tokens = <<>>
    /\ stmts \in {ReturnProgram(v.value, c, s) :
                      v \in FailingValues \cup ReturnedValues, c \in ReturnContexts,
                      s \in Callers}
    /\ idx = 0
    /\ environments = <<>> /\ env = 0 /\ globals = 0
    /\ output = <<>> /\ reported = <<>> /\ trace = <<>>
    /\ hadError = FALSE /\ hadRuntimeError = FALSE
    /\ last = NoOp

ExecNext == NewInterpreter \/ Interpret \/ Return

ExecSpec == ExecInit /\ [][ExecNext]_vars

C25_FailingInput ==
    ReturnProgram([k |-> "Unary", op |-> SymbolToken("Minus", "-"),
                   right |-> Literal(String("s"))], "bare", "print")

C25_WitnessReturned ==
    /\ pc = "done"
    /\ \E v \in ReturnedValues, c \in ReturnContexts :
           /\ stmts = ReturnProgram(v.value, c, "print")
           /\ v.shown = "3"
           /\ c = "while"
           /\ output = <<v.shown>>

------------------------------------------------------------------------------
(* Parser::parse on the token sequences of at most MaxTokens tokens and an    *)
(* Eof, one round of its while loop at a time.  The tokens are those the      *)
(* scanner makes of AlphabetSource; last holds the parser, and of the round   *)
(* just made: the cursor it began with (from), whether declaration_helper     *)
(* failed and the cursor it failed at (at); synchronize() ran from there.     *)

(*   print var fun ; ( ) { } = - a 1 *)
AlphabetSource ==
    <<"p", "r", "i", "n", "t", " ", "v", "a", "r", " ", "f", "u", "n", " ",
      ";", " ", "(", " ", ")", " ", "{", " ", "}", " ", "=", " ", "-", " ",
      "a", " ", "1">>

Scanned_tokens(source_) == scan_tokens(Scanner_new(source_)).tokens

Alphabet == {Scanned_tokens(AlphabetSource)[i] : i \in 1..12}

TokenSequences ==
    {Append(s, Token("Eof", "", Nil, 1)) :
         s \in {t \in UNION {[1..n -> Alphabet] : n \in 0..MaxTokens} :
                   Cardinality({i \in DOMAIN t : t[i].type_ = "LeftParen"}) <= MaxParens}}

ParseInit ==
    /\ pc = "parse"
    /\ tokens \in TokenSequences
    /\ last = [op |-> "new", P |-> Parser_new(tokens), from |-> 0, failed |-> FALSE,
               at |-> 0]
    /\ source = <<>> /\ stmts = <<>> /\ idx = 0
    /\ environments = <<>> /\ env = 0 /\ globals = 0
    /\ output = <<>> /\ reported = <<>> /\ trace = <<>>
    /\ hadError = FALSE /\ hadRuntimeError = FALSE

(* statements.push(self.declaration()?), h being the result of                *)
(* declaration_helper() inside it                                             *)
Declared(P, h, d) ==
    /\ last' = [op |-> "declaration", P |-> d.P, from |-> P.current,
                failed |-> h.kind # "ok", at |-> h.P.current]
    /\ stmts' = Append(stmts, d.node)
    /\ reported' = d.P.errs
    /\ hadError' = (d.P.errs # <<>>)
    /\ pc' = (IF d.P.panic THEN "panicked" ELSE "parse")
    /\ UNCHANGED <<source, tokens, idx, environments, env, globals, output,
                   hadRuntimeError, trace>>

Declaration ==
    /\ pc = "parse"
    /\ ~is_at_end(last.P)
    /\ Declared(last.P, declaration_helper(last.P), declaration(last.P))

(* while !self.is_at_end() is over: Ok(statements) *)
ParseReturn ==
    /\ pc = "parse"
    /\ is_at_end(last.P)
    /\ pc' = "parsed"
    /\ UNCHANGED <<source, tokens, stmts, idx, environments, env, globals, output,
                   reported, hadError, hadRuntimeError, trace, last>>

ParseNext == Declaration \/ ParseReturn

ParseSpec == ParseInit /\ [][ParseNext]_vars

(* The parser stands where synchronize() stops: after a semicolon, at a      *)
(* keyword that starts a statement, or at the end                            *)
AtBoundary(P) ==
    \/ is_at_end(P)
    \/ P.current > 0 /\ previous(P).type_ = "Semicolon"
    \/ peek(P).type_ \in {"Class", "Fun", "Var", "For", "If", "While", "Print", "Return"}

(* Every round of parse consumes a token, so there are at most as many       *)
(* rounds as tokens before the Eof.                                          *)
RoundsAdvance ==
    /\ Len(stmts) <= last.P.current
    /\ last.P.current < Len(tokens)
    /\ pc = "parsed" => is_at_end(last.P)
    /\ last.op = "declaration" => last.P.current > last.from

C26_WitnessAtEnd ==
    /\ last.op = "declaration"
    /\ last.failed
    /\ Len(tokens) = 3
    /\ tokens[1].type_ = "Print" /\ tokens[2].type_ = "Number"
    /\ last.at = 2
    /\ last.P.current = 2

(* C27: while parse runs on a token sequence that ends with an Eof, the      *)
(* cursor is between 0 and the index of the Eof, so peek() reads a token,    *)
(* and previous() is not called with the cursor at 0, in synchronize() after *)
(* an error at the first token either.                                       *)
C27_CursorInBounds ==
    /\ last.op \in {"new", "declaration"}
    /\ ~last.P.panic
    /\ pc # "panicked"
    /\ 0 <= last.P.current
    /\ last.P.current <= Len(tokens) - 1
    /\ tokens[Len(tokens)].type_ = "Eof"
    /\ peek(last.P) # NoToken
    /\ last.op = "declaration" /\ last.failed => 0 <= last.at /\ last.at <= Len(tokens) - 1

(* An error at the first token: synchronize() has moved the cursor to 1 or   *)
(* further before it called previous()                                       *)
C27_Witness ==
    /\ last.op = "declaration"
    /\ last.failed
    /\ last.from = 0 /\ last.at = 0
    /\ last.P.current >= 1
    /\ ~last.P.panic

(* An error at the Eof, where the cursor stays *)
C27_WitnessAtEnd ==
    /\ last.op = "declaration"
    /\ last.failed
    /\ last.P.current = Len(tokens) - 1
    /\ last.at = Len(tokens) - 1
    /\ pc = "parse"

------------------------------------------------------------------------------
(* Claims about the panicking arms of the value operators *)

(* The ten kinds of a binary operator *)
BinaryOperatorKinds ==
    {"Minus", "Slash", "Star", "Plus", "Greater", "GreaterEqual", "Less", "LessEqual",
     "BangEqual", "EqualEqual"}

(* The messages of the panics of sub, div, mul and add, and of unreachable!() *)
OperatorPanics ==
    {"Subtraction is only supported for numbers",
     "Division is only supported for numbers",
     "Multiplication is only supported for numbers",
     "Addition is only supported for numbers and strings",
     "unreachable"}

RECURSIVE BinariesOf(_), BinariesOfAll(_, _)

(* The Binary expressions in a tree of statements and expressions *)
BinariesOf(node) ==
    CASE node.k = "Binary" ->
            {node} \cup BinariesOf(node.left) \cup BinariesOf(node.right)
      [] node.k = "Logical" -> BinariesOf(node.left) \cup BinariesOf(node.right)
      [] node.k = "Unary" -> BinariesOf(node.right)
      [] node.k = "Grouping" -> BinariesOf(node.expression)
      [] node.k = "Assign" -> BinariesOf(node.value)
      [] node.k = "Call" ->
            BinariesOf(node.callee) \cup BinariesOfAll(node.arguments, 1)
      [] node.k \in {"Expr", "Print"} -> BinariesOf(node.expr)
      [] node.k = "Var" -> BinariesOf(node.initializer)
      [] node.k = "Block" -> BinariesOfAll(node.stmts, 1)
      [] node.k = "If" ->
            BinariesOf(node.condition) \cup BinariesOf(node.then_branch)
            \cup BinariesOfAll(node.else_branch, 1)
      [] node.k = "While" -> BinariesOf(node.condition) \cup BinariesOf(node.body)
      [] node.k = "Function" -> BinariesOfAll(node.body, 1)
      [] OTHER -> {}

BinariesOfAll(nodes, i) ==
    IF i > Len(nodes) THEN {}
    ELSE BinariesOf(nodes[i]) \cup BinariesOfAll(nodes, i + 1)

(* C28: the operator of every Binary expression the parser makes is one of  *)
(* the ten binary operator kinds, and no statement ends in a panic of sub,   *)
(* div, mul or add or in the unreachable!() arm: on every pair of operand    *)
(* values eval_binary returns the runtime error of its check, or applies     *)
(* -, /, *, + to two Numbers (+ to two Strings too) and yields a value.      *)
C28_OperatorPanicsUnreachable ==
    /\ \A b \in BinariesOfAll(stmts, 1) : b.op.type_ \in BinaryOperatorKinds
    /\ \A i \in Events("stmt") :
           trace[i].res.kind = "panic" => trace[i].res.message \notin OperatorPanics
    /\ \A l \in Operands, o \in NumberOperators \cup {PlusOperator}, r \in Operands :
           source = BinarySource(l.text, o.text, r.text) =>
               \A i \in Events("stmt") :
                   /\ trace[i].res.kind \in {"ok", "err"}
                   /\ trace[i].idx = 3 /\ trace[i].res.kind = "ok"
                      /\ o.type_ \in {"Minus", "Slash", "Star", "Plus"} =>
                          \/ l.kind = "Number" /\ r.kind = "Number"
                          \/ o = PlusOperator /\ l.kind = "String" /\ r.kind = "String"
                   /\ trace[i].res.kind = "err" =>
                          /\ trace[i].idx = 3
                          /\ trace[i].res.message \in
                                 {"Operands must be numbers.",
                                  "Operands must be two numbers or two strings."}

(* nil + "world": the check of + returns the runtime error and add() is not  *)
(* called                                                                    *)
C28_Witness ==
    /\ pc = "done"
    /\ source = BinarySource(<<"n", "i", "l">>, <<"+">>, <<"\"", "w", "o", "r", "l", "d", "\"">>)
    /\ PrintResult(RuntimeError(Token("Plus", "+", NotExist, 3),
                                "Operands must be two numbers or two strings."))
    /\ BinariesOfAll(stmts, 1) # {}

(* 1 / 2: div() on two Numbers *)
C28_WitnessApplied ==
    /\ pc = "done"
    /\ source = BinarySource(<<"1">>, <<"/">>, <<"2">>)
    /\ output = <<"0.5">>

------------------------------------------------------------------------------
(* PromptSpec: Lox::run_prompt, which reads a line and calls Lox::run on it,  *)
(* line after line, on one Lox value.  A line ends with its newline.  last    *)
(* holds the lines run before the current one and how many lines stdout and   *)
(* stderr had when the current one was read.                                  *)

(*   var a = 1; *)
VarLine ==
    <<"v", "a", "r", " ", "a", " ", "=", " ", "1", ";", "\n">>

(*   fun f() { } *)
FunLine ==
    <<"f", "u", "n", " ", "f", "(", ")", " ", "{", " ", "}", "\n">>

(*   print clock; *)
ClockLine ==
    <<"p", "r", "i", "n", "t", " ", "c", "l", "o", "c", "k", ";", "\n">>

(* Lines that read or assign a name, with the name:                           *)
(*   print a;     a = 2;     print f;     f();                                *)
ReadingLines ==
    {[text |-> <<"p", "r", "i", "n", "t", " ", "a", ";", "\n">>, name |-> "a"],
     [text |-> <<"a", " ", "=", " ", "2", ";", "\n">>, name |-> "a"],
     [text |-> <<"p", "r", "i", "n", "t", " ", "f", ";", "\n">>, name |-> "f"],
     [text |-> <<"f", "(", ")", ";", "\n">>, name |-> "f"]}

PromptLines == {VarLine, FunLine, ClockLine} \cup {r.text : r \in ReadingLines}

PromptInit ==
    /\ pc = "run"
    /\ source \in PromptLines
    /\ tokens = <<>> /\ stmts = <<>> /\ idx = 0
    /\ environments = <<>> /\ env = 0 /\ globals = 0
    /\ output = <<>> /\ reported = <<>> /\ trace = <<>>
    /\ hadError = FALSE /\ hadRuntimeError = FALSE
    /\ last = [op |-> "read_line", lines |-> <<>>, out |-> 0, err |-> 0]

(* self.run(line) has returned Ok(()) and read_line reads the next line *)
ReadLine ==
    /\ pc = "done"
    /\ Len(last.lines) + 1 < MaxLines
    /\ source' \in PromptLines
    /\ pc' = "run"
    /\ tokens' = <<>> /\ stmts' = <<>> /\ idx' = 0
    /\ last' = [op |-> "read_line", lines |-> Append(last.lines, source),
                out |-> Len(output), err |-> Len(reported)]
    /\ UNCHANGED <<environments, env, globals, output, reported, hadError,
                   hadRuntimeError, trace>>

PromptNext == Scan \/ Parse \/ NewInterpreter \/ Interpret \/ Return \/ ReadLine

PromptSpec == PromptInit /\ [][PromptNext]_vars

(* C29: every call of run interprets its program with a new interpreter,    *)
(* whose global scope holds clock and nothing else: a name that an earlier   *)
(* call of run on the same Lox defined is undefined in a later one, and      *)
(* reading or assigning it there is an undefined-variable error.             *)
C29_FreshInterpreter ==
    /\ pc = "interpret" /\ idx = 1 =>
           /\ Len(environments) = 1
           /\ env = 1 /\ globals = 1
           /\ DOMAIN environments[1].values = {"clock"}
           /\ environments[1].values["clock"] = Clock
    /\ \A r \in ReadingLines :
           pc = "done" /\ source = r.text =>
               /\ Len(output) = last.out
               /\ Len(reported) = last.err + 1
               /\ reported[Len(reported)] =
                      [runtime |-> UndefinedMessage(r.name), line |-> 1]
    /\ pc = "done" /\ source = ClockLine =>
           /\ Len(reported) = last.err
           /\ Len(output) = last.out + 1
           /\ output[Len(output)] = "<native fn>"

(* var a = 1; and then print a; on the next line *)
C29_Witness ==
    /\ pc = "done"
    /\ last.lines = <<VarLine>>
    /\ source = <<"p", "r", "i", "n", "t", " ", "a", ";", "\n">>
    /\ output = <<>>
    /\ reported = <<[runtime |-> "Undefined variable 'a'.", line |-> 1]>>

(* fun f() { } and then f(); on the next line *)
C29_WitnessFunction ==
    /\ pc = "done"
    /\ last.lines = <<FunLine>>
    /\ source = <<"f", "(", ")", ";", "\n">>
    /\ reported = <<[runtime |-> "Undefined variable 'f'.", line |-> 1]>>

====
